---- MODULE Spec2Model ----
(***************************************************************************)
(* A model of the path-resolution and access-control core of mlist        *)
(* (backend/src): path_guard.rs, auth.rs, session.rs and the request      *)
(* handlers of handlers.rs.                                                *)
(*                                                                         *)
(* Strings are sequences of characters; a character is a one-element       *)
(* TLA+ string, except CtrlA, which stands for U+0001.  A Rust Option is   *)
(* a sequence of length at most one, a Result is a record with the field   *)
(* ok.  Paths (PathBuf) are sequences of components, each a string.        *)
(***************************************************************************)
EXTENDS Integers, Sequences, FiniteSets, TLC

VARIABLES
    raw,        \* the input a pure function is given (SpecNorm, SpecRange)
    fs,         \* the directory entries below the configured root
    sessions,   \* SessionStore::inner: session id -> SessionData
    minted,     \* how many session ids Uuid::new_v4 has produced so far
    attempts,   \* LoginRateLimiter::inner: key -> LoginAttempt
    now,        \* the clock now_unix() reads, in seconds
    inflight,   \* SpecLogin: the login requests between two of their awaits
    ret         \* the last call or request and what it returned

vars == <<raw, fs, sessions, minted, attempts, now, inflight, ret>>

\* The variables of the two stores and the clock.
storeVars == <<sessions, minted, attempts, now>>

----------------------------------------------------------------------------
(* Option and Result *)

None == <<>>
Some(x) == <<x>>
IsSome(o) == o # <<>>
Unwrap(o) == o[1]

Ok(v) == [ok |-> TRUE, val |-> v]
Err(code, message) == [ok |-> FALSE, code |-> code, message |-> message]

\* The element of a set of one.
TheOne(S) == CHOOSE v \in S : TRUE
\* `let v = value; Then(v)`: the value is computed once and Then reads it
Let(value, Then(_)) == TheOne({Then(v) : v \in {value}})
\* `let v = result?; Then(v)`: an error is returned as it is
Try(result, Then(_)) ==
    TheOne({IF r.ok THEN Then(r.val) ELSE r : r \in {result}})
\* the same in a function that returns Fail(e) for the error e
TryOr(result, Fail(_), Then(_)) ==
    TheOne({IF r.ok THEN Then(r.val) ELSE Fail(r) : r \in {result}})

(* errors.rs: the constructors of ApiError, by their code *)
bad_request(message) == Err("BAD_REQUEST", message)
unauthorized(message) == Err("UNAUTHORIZED", message)
auth_required == Err("AUTH_REQUIRED", "Authentication required for this path.")
forbidden(message) == Err("FORBIDDEN", message)
not_found(message) == Err("NOT_FOUND", message)
invalid_range(message) == Err("INVALID_RANGE", message)
rate_limited(message) == Err("RATE_LIMITED", message)
internal(message) == Err("INTERNAL_ERROR", message)

(* std::io::ErrorKind values the model's filesystem produces *)
IoKinds == {"NotFound", "PermissionDenied", "NotADirectory"}

from_io(kind, context) ==
    IF kind = "NotFound" THEN not_found(context \o " not found.")
    ELSE IF kind = "PermissionDenied"
         THEN forbidden("Permission denied while accessing " \o context \o ".")
         ELSE internal("Failed to access " \o context \o ".")

----------------------------------------------------------------------------
(* Characters and strings *)

CtrlA == "^A"

\* Characters outside ASCII, each written as its code point: the ideographic
\* space and the four letters of the file name in the tests of handlers.rs.
IdeographicSpace == "U+3000"
NonAsciiCodePoints ==
    (IdeographicSpace :> 12288) @@ ("U+4F60" :> 20320) @@ ("U+597D" :> 22909)
        @@ ("U+5B57" :> 23383) @@ ("U+5E55" :> 24149)

\* char::is_whitespace
IsWhitespace(c) == c \in {" ", "\t", "\n", IdeographicSpace}
\* char::is_control
IsControl(c) == c \in {"\t", "\n", CtrlA}

RECURSIVE TrimStart(_)
TrimStart(s) ==
    IF s # <<>> /\ IsWhitespace(Head(s)) THEN TrimStart(Tail(s)) ELSE s

RECURSIVE TrimEnd(_)
TrimEnd(s) ==
    IF s # <<>> /\ IsWhitespace(s[Len(s)])
    THEN TrimEnd(SubSeq(s, 1, Len(s) - 1))
    ELSE s

\* str::trim
Trim(s) == TrimEnd(TrimStart(s))

\* str::contains(char)
Contains(s, c) == \E i \in 1..Len(s) : s[i] = c

\* str::split(char): "a//b" gives "a", "", "b"; "" gives one empty segment
RECURSIVE Split(_, _)
Split(s, sep) ==
    Let(s, LAMBDA str :
    IF ~Contains(str, sep) THEN <<str>>
    ELSE Let(CHOOSE k \in 1..Len(str) :
                 str[k] = sep /\ \A j \in 1..(k - 1) : str[j] # sep,
             LAMBDA i :
                 <<SubSeq(str, 1, i - 1)>>
                     \o Split(SubSeq(str, i + 1, Len(str)), sep)))

\* [&str]::join(sep)
RECURSIVE Join(_, _)
Join(segs, sep) ==
    IF segs = <<>> THEN <<>>
    ELSE IF Len(segs) = 1 THEN segs[1]
    ELSE segs[1] \o <<sep>> \o Join(Tail(segs), sep)

\* The string written "..." in the source, as a sequence of characters.
Dot == <<".">>
DotDot == <<".", ".">>
Slash == <<"/">>

PRIVATE_MARKER_FILE == <<".", "p", "r", "i", "v", "a", "t", "e">>
PASSWORD_MARKER_FILE == <<".", "p", "a", "s", "s", "w", "o", "r", "d">>

is_private_marker_name(name) ==
    name \in {PRIVATE_MARKER_FILE, PASSWORD_MARKER_FILE}

----------------------------------------------------------------------------
(* path_guard.rs: normalize_relative_path *)

\* Mutant: the loop forgets to reject the ".." segment.
RECURSIVE SegmentErrorNoDotDot(_)
SegmentErrorNoDotDot(segs) ==
    IF segs = <<>> THEN None
    ELSE LET segment == Head(segs) IN
         IF segment = <<>> \/ segment = Dot
         THEN Some(bad_request("Invalid path segment."))
         ELSE IF \E i \in 1..Len(segment) : IsControl(segment[i])
         THEN Some(bad_request("Path contains disallowed control characters."))
         ELSE SegmentErrorNoDotDot(Tail(segs))

\* The first segment of segs (in order) that the loop rejects, as the error
\* it returns; None when every segment passes.
RECURSIVE SegmentError(_)
SegmentError(segs) ==
    IF segs = <<>> THEN None
    ELSE LET segment == Head(segs) IN
         IF segment = <<>> \/ segment = Dot \/ segment = DotDot
         THEN Some(bad_request("Invalid path segment."))
         ELSE IF \E i \in 1..Len(segment) : IsControl(segment[i])
         THEN Some(bad_request("Path contains disallowed control characters."))
         ELSE SegmentError(Tail(segs))

\* Mutant: the root shortcut accepts only the empty string, not "/".
normalize_without_slash_root(rawopt) ==
    Let(Trim(IF IsSome(rawopt) THEN Unwrap(rawopt) ELSE <<>>), LAMBDA path :
    IF path = <<>> THEN Ok(<<>>)
    ELSE IF Head(path) = "/" THEN bad_request("Path must be relative.")
    ELSE IF Contains(path, "\\")
         THEN bad_request("Backslash is not allowed in path.")
    ELSE Let(Split(path, "/"), LAMBDA segments :
         Let(SegmentError(segments), LAMBDA bad :
             IF IsSome(bad) THEN Unwrap(bad) ELSE Ok(Join(segments, "/")))))

normalize_relative_path(rawopt) ==
    Let(Trim(IF IsSome(rawopt) THEN Unwrap(rawopt) ELSE <<>>), LAMBDA path :
    IF path = <<>> \/ path = Slash THEN Ok(<<>>)
    ELSE IF Head(path) = "/" THEN bad_request("Path must be relative.")
    ELSE IF Contains(path, "\\")
         THEN bad_request("Backslash is not allowed in path.")
    ELSE Let(Split(path, "/"), LAMBDA segments :
         Let(SegmentError(segments), LAMBDA bad :
             IF IsSome(bad) THEN Unwrap(bad) ELSE Ok(Join(segments, "/")))))

\* Mutant: only a path that is a marker name as a whole is refused.
ensure_not_marker_path_whole(path) ==
    IF is_private_marker_name(path) THEN not_found("File not found.")
    ELSE Ok(<<>>)

ensure_not_marker_path(path) ==
    Let(Split(path, "/"), LAMBDA segs :
        IF is_private_marker_name(segs[Len(segs)])
        THEN not_found("File not found.")
        ELSE Ok(<<>>))


----------------------------------------------------------------------------
(* The filesystem the program reads.  An absolute path is the sequence of   *)
(* its components.  Below the root the entries are the variable fs; the     *)
(* rest of the machine is fixed: "/", the root directory, and a directory   *)
(* /etc holding one regular file, where a symlink may point.                *)

NoEntry == [kind |-> "none"]
Dir == [kind |-> "dir"]
File(data) == [kind |-> "file", data |-> data]
Symlink(target) == [kind |-> "symlink", target |-> target]

\* config.rs: root_dir, canonicalized by AppConfig::load
RootDir == << <<"s", "r", "v">> >>
OutsideDir == << <<"e", "t", "c">> >>
OutsideFile == << <<"e", "t", "c">>, <<"a">> >>
Dangling == << <<"g", "o", "n", "e">> >>

\* Path::starts_with: component-wise prefix
StartsWith(path, base) ==
    Len(base) <= Len(path) /\ SubSeq(path, 1, Len(base)) = base

\* Path::strip_prefix, for a path that starts with base
StripPrefix(path, base) == SubSeq(path, Len(base) + 1, Len(path))

\* Path::parent: None for "/"
Parent(path) ==
    IF path = <<>> THEN None ELSE Some(SubSeq(path, 1, Len(path) - 1))

\* The directory entry at a location reached without crossing a symlink.
EntryAt(abs) ==
    IF abs = <<>> \/ abs = RootDir \/ abs = OutsideDir THEN Dir
    ELSE IF abs = OutsideFile THEN File(<<"r", "o", "o", "t">>)
    ELSE IF StartsWith(abs, RootDir) /\ StripPrefix(abs, RootDir) \in DOMAIN fs
         THEN fs[StripPrefix(abs, RootDir)]
         ELSE NoEntry

\* The kernel's path walk from the resolved location cur through comps,
\* following the last component when followLast (stat, realpath) and not
\* otherwise (lstat): the resolved location and its entry, or the errno.
RECURSIVE Walk(_, _, _)
Walk(cur, comps, followLast) ==
    Let(cur, LAMBDA here :
    Let(EntryAt(here), LAMBDA entry :
    IF entry.kind = "none" THEN [ok |-> FALSE, kind |-> "NotFound"]
    ELSE IF comps = <<>> THEN [ok |-> TRUE, loc |-> here, entry |-> entry]
    ELSE IF entry.kind # "dir" THEN [ok |-> FALSE, kind |-> "NotADirectory"]
    ELSE Let(Append(here, Head(comps)), LAMBDA cand :
         Let(EntryAt(cand), LAMBDA e :
             IF e.kind = "symlink" /\ (Len(comps) > 1 \/ followLast)
             THEN Walk(e.target, Tail(comps), followLast)
             ELSE Walk(cand, Tail(comps), followLast)))))

\* tokio::fs::symlink_metadata
symlink_metadata(path) == Let(path, LAMBDA p : Walk(<<>>, p, FALSE))
\* tokio::fs::metadata
metadata(path) == Let(path, LAMBDA p : Walk(<<>>, p, TRUE))
\* tokio::fs::canonicalize
canonicalize(path) ==
    Let(metadata(path), LAMBDA w :
        IF w.ok THEN [ok |-> TRUE, path |-> w.loc] ELSE w)

\* The components PathBuf::push / Path::join add for a relative path string.
Components(relative_path) ==
    IF relative_path = <<>> THEN <<>> ELSE Split(relative_path, "/")

----------------------------------------------------------------------------
(* The tree the environment may build below the root: a chain of entries    *)
(* a, a/b, each a directory, a regular file or a symlink, and the two       *)
(* marker names in the directories: .password anywhere, .private in the     *)
(* directories of the chain (the root is never an entry of a listing, so a  *)
(* .private in it is never looked for).                                     *)

NameA == <<"a">>
NameB == <<"b">>
NameC == <<"c">>
DirChain == <<NameA, NameB>>

ChainPaths == {SubSeq(DirChain, 1, k) : k \in 1..Len(DirChain)}
MarkerPaths ==
    {Append(d, PASSWORD_MARKER_FILE) : d \in {<<>>} \cup ChainPaths}
        \cup {Append(d, PRIVATE_MARKER_FILE) : d \in ChainPaths}
\* A second entry next to b in a, for the listings of a.
SiblingPaths == {<<NameA, NameC>>}
EntryPaths == ChainPaths \cup MarkerPaths \cup SiblingPaths

EmptyFs == [p \in EntryPaths |-> NoEntry]

\* What a .password file holds (its trimmed contents are the password) and
\* what any other regular file holds.
PasswordFileData == <<"p", "w", "\n">>
PlainFileData == <<"d", "a", "t", "a">>

IsMarkerPath(p) == is_private_marker_name(p[Len(p)])

FileFor(p) ==
    IF p[Len(p)] = PASSWORD_MARKER_FILE THEN File(PasswordFileData)
    ELSE IF p[Len(p)] = PRIVATE_MARKER_FILE THEN File(<<>>)
    ELSE File(PlainFileData)

\* Directories and regular files only.
PlainEntries(p) == {FileFor(p)} \cup (IF IsMarkerPath(p) THEN {} ELSE {Dir})

\* Every kind of entry: also symlinks (into the root, out of it, dangling)
\* and a directory in the place of a marker file.
AllEntries(p) ==
    {FileFor(p), Dir}
        \cup (IF IsMarkerPath(p) THEN {Symlink(OutsideFile)}
              ELSE {Symlink(RootDir), Symlink(OutsideDir), Symlink(Dangling)})

ParentIsDir(p) ==
    IF Len(p) = 1 THEN TRUE ELSE fs[SubSeq(p, 1, Len(p) - 1)].kind = "dir"
HasChildren(p) ==
    \E q \in EntryPaths :
        Len(q) = Len(p) + 1 /\ SubSeq(q, 1, Len(p)) = p /\ fs[q].kind # "none"

----------------------------------------------------------------------------
(* path_guard.rs: resolve_existing_path and its helpers *)

\* The loop of check_symlink_segments from segment i on.
RECURSIVE CheckSegmentsFrom(_, _, _)
CheckSegmentsFrom(root, segs, i) ==
    IF i > Len(segs) THEN Ok(<<>>)
    ELSE Let(symlink_metadata(root \o SubSeq(segs, 1, i)), LAMBDA meta :
             IF ~meta.ok THEN from_io(meta.kind, "path")
             ELSE IF meta.entry.kind = "symlink"
                  THEN forbidden("Symbolic links are not allowed.")
                  ELSE CheckSegmentsFrom(root, segs, i + 1))

\* Mutant: the per-segment walk is left out.
check_symlink_segments_skipped(root, relative_path) == Ok(<<>>)

check_symlink_segments(root, relative_path) ==
    IF relative_path = <<>> THEN Ok(<<>>)
    ELSE Let(Split(relative_path, "/"), LAMBDA segs :
             CheckSegmentsFrom(root, segs, 1))

\* Mutant: joins the path to the root and returns it, with no check at all.
resolve_unchecked(root, relative_path) ==
    Ok(root \o Components(relative_path))

resolve_existing_path(root, relative_path) ==
    Try(check_symlink_segments(root, relative_path), LAMBDA segments :
    Let(root \o Components(relative_path), LAMBDA candidate :
    Let(symlink_metadata(candidate), LAMBDA candidate_meta :
    IF ~candidate_meta.ok THEN from_io(candidate_meta.kind, "path")
    ELSE IF candidate_meta.entry.kind = "symlink"
         THEN forbidden("Symbolic links are not allowed.")
    ELSE Let(canonicalize(candidate), LAMBDA canonical :
         IF ~canonical.ok THEN from_io(canonical.kind, "path")
         ELSE IF ~StartsWith(canonical.path, root)
              THEN forbidden("Path escapes configured root directory.")
              ELSE Ok(canonical.path)))))

relative_string_from_root(root, absolute_path) ==
    IF ~StartsWith(absolute_path, root)
    THEN forbidden("Path is outside configured root directory.")
    ELSE Ok(Join(StripPrefix(absolute_path, root), "/"))

----------------------------------------------------------------------------
(* auth.rs *)

\* Mutant: fs::metadata, which follows a symlink, in place of
\* fs::symlink_metadata.
marker_exists_following(dir, marker_name) ==
    Let(metadata(Append(dir, marker_name)), LAMBDA meta :
        IF ~meta.ok
        THEN IF meta.kind = "NotFound" THEN Ok(FALSE)
             ELSE from_io(meta.kind, "marker file")
        ELSE IF meta.entry.kind = "symlink"
             THEN forbidden("Private marker file cannot be a symbolic link.")
        ELSE IF meta.entry.kind # "file"
             THEN forbidden("Private marker file must be a regular file.")
             ELSE Ok(TRUE))

marker_exists(dir, marker_name) ==
    Let(symlink_metadata(Append(dir, marker_name)), LAMBDA meta :
        IF ~meta.ok
        THEN IF meta.kind = "NotFound" THEN Ok(FALSE)
             ELSE from_io(meta.kind, "marker file")
        ELSE IF meta.entry.kind = "symlink"
             THEN forbidden("Private marker file cannot be a symbolic link.")
        ELSE IF meta.entry.kind # "file"
             THEN forbidden("Private marker file must be a regular file.")
             ELSE Ok(TRUE))

read_marker_password(dir, marker_name) ==
    Try(marker_exists(dir, marker_name), LAMBDA exists :
        IF ~exists THEN Ok(None)
        ELSE Let(metadata(Append(dir, marker_name)), LAMBDA read :
                 IF ~read.ok THEN from_io(read.kind, "marker file")
                 ELSE Ok(Some(Trim(read.entry.data)))))

\* Mutant: the walk does not move to the parent.
parent_within_root_staying(current, root) ==
    Ok(current)

parent_within_root(current, root) ==
    Let(Parent(current), LAMBDA parent :
        IF ~IsSome(parent) THEN forbidden("Path is outside configured root directory.")
        ELSE IF ~StartsWith(Unwrap(parent), root)
        THEN forbidden("Path is outside configured root directory.")
        ELSE Ok(Unwrap(parent)))

PrivateAnchor(scope_rel, password) ==
    [scope_rel |-> scope_rel, password |-> password,
     marker_file |-> PASSWORD_MARKER_FILE]

\* The loop of find_private_anchor from the directory current on.
RECURSIVE AnchorLoop(_, _)
AnchorLoop(root, current) ==
    Try(read_marker_password(current, PASSWORD_MARKER_FILE), LAMBDA password :
    IF IsSome(password)
    THEN Try(relative_string_from_root(root, current), LAMBDA scope_rel :
             Ok(Some(PrivateAnchor(scope_rel, Unwrap(password)))))
    ELSE IF current = root THEN Ok(None)
    ELSE Try(parent_within_root(current, root), LAMBDA parent :
             AnchorLoop(root, parent)))

\* Mutant: the walk starts at the parent whatever the target is.
find_private_anchor_from_parent(root, target_path, target_is_dir) ==
    IF ~StartsWith(target_path, root)
    THEN forbidden("Path is outside configured root directory.")
    ELSE AnchorLoop(root,
            IF IsSome(Parent(target_path)) THEN Unwrap(Parent(target_path))
            ELSE root)

find_private_anchor(root, target_path, target_is_dir) ==
    IF ~StartsWith(target_path, root)
    THEN forbidden("Path is outside configured root directory.")
    ELSE AnchorLoop(root,
            IF target_is_dir THEN target_path
            ELSE IF IsSome(Parent(target_path)) THEN Unwrap(Parent(target_path))
            ELSE root)

\* Mutant: the listing looks for the wrong marker in a subdirectory.
has_private_hide_marker_password(dir) ==
    marker_exists(dir, PASSWORD_MARKER_FILE)

has_private_hide_marker(dir) == marker_exists(dir, PRIVATE_MARKER_FILE)

----------------------------------------------------------------------------
(* session.rs: SessionStore.  The map is a function from the ids it holds   *)
(* to SessionData records.  Every operation takes the write lock for its    *)
(* whole body, so each is one atomic step on the map.                       *)

EmptyMap == <<>>
MapPut(f, k, v) == [x \in (DOMAIN f) \cup {k} |-> IF x = k THEN v ELSE f[x]]
MapRemove(f, k) == [x \in (DOMAIN f) \ {k} |-> f[x]]
\* HashMap::retain
MapRetain(f, kept) == [x \in kept |-> f[x]]

SessionData(scopes, expires_at) == [scopes |-> scopes, expires_at |-> expires_at]

\* u64::saturating_add; the times of the model stay far below u64::MAX
saturating_add(a, b) == a + b

\* Mutant: a record is still valid at the instant it expires.
get_valid_inclusive(store, sid, t) ==
    IF sid \in DOMAIN store
    THEN IF store[sid].expires_at >= t
         THEN [result |-> Some(store[sid]), sessions |-> store]
         ELSE [result |-> None, sessions |-> MapRemove(store, sid)]
    ELSE [result |-> None, sessions |-> store]

\* SessionStore::get_valid: what it returns and the map it leaves.
get_valid(store, sid, t) ==
    IF sid \in DOMAIN store
    THEN IF store[sid].expires_at > t
         THEN [result |-> Some(store[sid]), sessions |-> store]
         ELSE [result |-> None, sessions |-> MapRemove(store, sid)]
    ELSE [result |-> None, sessions |-> store]

\* Mutant: the expired records are not swept before the id is looked up.
create_or_update_unswept(store, current_sid, scope, ttl_seconds, t, uuid) ==
    LET session_id ==
            IF IsSome(current_sid) /\ Unwrap(current_sid) \in DOMAIN store
            THEN Unwrap(current_sid)
            ELSE uuid
        expires_at == saturating_add(t, ttl_seconds)
        entry == IF session_id \in DOMAIN store THEN store[session_id]
                 ELSE SessionData({}, expires_at)
        session == SessionData(entry.scopes \cup {scope}, expires_at)
    IN [session_id |-> session_id, session |-> session,
        minted |-> session_id = uuid,
        sessions |-> MapPut(store, session_id, session)]

\* Mutant: an id the request carries is taken as it is, stored or not.
create_or_update_adopting(store, current_sid, scope, ttl_seconds, t, uuid) ==
    LET retained == MapRetain(store, {k \in DOMAIN store :
                                          store[k].expires_at > t})
        session_id == IF IsSome(current_sid) THEN Unwrap(current_sid) ELSE uuid
        expires_at == saturating_add(t, ttl_seconds)
        entry == IF session_id \in DOMAIN retained THEN retained[session_id]
                 ELSE SessionData({}, expires_at)
        session == SessionData(entry.scopes \cup {scope}, expires_at)
    IN [session_id |-> session_id, session |-> session,
        minted |-> session_id = uuid,
        sessions |-> MapPut(retained, session_id, session)]

\* Mutant: the record is written anew, with the granted scope alone.
create_or_update_overwriting(store, current_sid, scope, ttl_seconds, t, uuid) ==
    LET retained == MapRetain(store, {k \in DOMAIN store :
                                          store[k].expires_at > t})
        session_id ==
            IF IsSome(current_sid) /\ Unwrap(current_sid) \in DOMAIN retained
            THEN Unwrap(current_sid)
            ELSE uuid
        session == SessionData({scope}, saturating_add(t, ttl_seconds))
    IN [session_id |-> session_id, session |-> session,
        minted |-> session_id = uuid,
        sessions |-> MapPut(retained, session_id, session)]

\* SessionStore::create_or_update; uuid is the id Uuid::new_v4 yields if asked.
create_or_update(store, current_sid, scope, ttl_seconds, t, uuid) ==
    LET retained == MapRetain(store, {k \in DOMAIN store :
                                          store[k].expires_at > t})
        session_id ==
            IF IsSome(current_sid) /\ Unwrap(current_sid) \in DOMAIN retained
            THEN Unwrap(current_sid)
            ELSE uuid
        expires_at == saturating_add(t, ttl_seconds)
        entry == IF session_id \in DOMAIN retained THEN retained[session_id]
                 ELSE SessionData({}, expires_at)
        session == SessionData(entry.scopes \cup {scope}, expires_at)
    IN [session_id |-> session_id, session |-> session,
        minted |-> session_id = uuid,
        sessions |-> MapPut(retained, session_id, session)]

\* Mutant: the record is taken out of a copy of the map, not of the map.
remove_from_copy(store, sid) == store

\* SessionStore::remove
remove(store, sid) == MapRemove(store, sid)

----------------------------------------------------------------------------
(* session.rs: LoginRateLimiter.  max_failures and block_seconds are the    *)
(* configured login_max_failures and login_block_seconds.                   *)

LoginAttempt(failures, blocked_until) ==
    [failures |-> failures, blocked_until |-> blocked_until]

\* Mutant: a block still counts at the very second of its deadline.
blocked_until_inclusive(limiter, key, t) ==
    IF key \notin DOMAIN limiter THEN [result |-> None, attempts |-> limiter]
    ELSE LET entry == limiter[key] IN
         IF IsSome(entry.blocked_until) /\ Unwrap(entry.blocked_until) >= t
         THEN [result |-> entry.blocked_until, attempts |-> limiter]
         ELSE IF IsSome(entry.blocked_until)
         THEN [result |-> None,
               attempts |-> MapPut(limiter, key, LoginAttempt(0, None))]
         ELSE [result |-> None, attempts |-> limiter]

\* LoginRateLimiter::blocked_until: what it returns and the map it leaves.
blocked_until(limiter, key, t) ==
    IF key \notin DOMAIN limiter THEN [result |-> None, attempts |-> limiter]
    ELSE LET entry == limiter[key] IN
         IF IsSome(entry.blocked_until) /\ Unwrap(entry.blocked_until) > t
         THEN [result |-> entry.blocked_until, attempts |-> limiter]
         ELSE IF IsSome(entry.blocked_until)
         THEN [result |-> None,
               attempts |-> MapPut(limiter, key, LoginAttempt(0, None))]
         ELSE [result |-> None, attempts |-> limiter]

\* Mutant: the failures are counted but the count is never compared.
record_failure_unbounded(limiter, key, t, max_failures, block_seconds) ==
    LET entry == IF key \in DOMAIN limiter THEN limiter[key]
                 ELSE LoginAttempt(0, None)
    IN IF IsSome(entry.blocked_until) /\ Unwrap(entry.blocked_until) > t
       THEN [result |-> entry.blocked_until,
             attempts |-> MapPut(limiter, key, entry)]
       ELSE [result |-> None,
             attempts |-> MapPut(limiter, key,
                 LoginAttempt(saturating_add(
                     IF IsSome(entry.blocked_until) THEN 0 ELSE entry.failures,
                     1), None))]

\* Mutant: a failure during a block starts the block anew.
record_failure_extending(limiter, key, t, max_failures, block_seconds) ==
    LET entry == IF key \in DOMAIN limiter THEN limiter[key]
                 ELSE LoginAttempt(0, None)
        until == saturating_add(t, block_seconds)
    IN IF IsSome(entry.blocked_until) /\ Unwrap(entry.blocked_until) > t
       THEN [result |-> Some(until),
             attempts |-> MapPut(limiter, key, LoginAttempt(0, Some(until)))]
       ELSE LET failures == saturating_add(
                    IF IsSome(entry.blocked_until) THEN 0 ELSE entry.failures, 1)
            IN IF failures >= max_failures
               THEN [result |-> Some(until),
                     attempts |-> MapPut(limiter, key, LoginAttempt(0, Some(until)))]
               ELSE [result |-> None,
                     attempts |-> MapPut(limiter, key, LoginAttempt(failures, None))]

\* Mutant: the count is left as it is when the block is set.
record_failure_keeping_count(limiter, key, t, max_failures, block_seconds) ==
    LET entry == IF key \in DOMAIN limiter THEN limiter[key]
                 ELSE LoginAttempt(0, None)
    IN IF IsSome(entry.blocked_until) /\ Unwrap(entry.blocked_until) > t
       THEN [result |-> entry.blocked_until,
             attempts |-> MapPut(limiter, key, entry)]
       ELSE LET failures == saturating_add(
                    IF IsSome(entry.blocked_until) THEN 0 ELSE entry.failures, 1)
            IN IF failures >= max_failures
               THEN LET until == saturating_add(t, block_seconds) IN
                    [result |-> Some(until),
                     attempts |-> MapPut(limiter, key,
                                         LoginAttempt(failures, Some(until)))]
               ELSE [result |-> None,
                     attempts |-> MapPut(limiter, key, LoginAttempt(failures, None))]

\* LoginRateLimiter::record_failure
record_failure(limiter, key, t, max_failures, block_seconds) ==
    LET entry == IF key \in DOMAIN limiter THEN limiter[key]
                 ELSE LoginAttempt(0, None)
    IN IF IsSome(entry.blocked_until) /\ Unwrap(entry.blocked_until) > t
       THEN [result |-> entry.blocked_until,
             attempts |-> MapPut(limiter, key, entry)]
       ELSE LET failures == saturating_add(
                    IF IsSome(entry.blocked_until) THEN 0 ELSE entry.failures, 1)
            IN IF failures >= max_failures
               THEN LET until == saturating_add(t, block_seconds) IN
                    [result |-> Some(until),
                     attempts |-> MapPut(limiter, key, LoginAttempt(0, Some(until)))]
               ELSE [result |-> None,
                     attempts |-> MapPut(limiter, key, LoginAttempt(failures, None))]

\* Mutant: the count is forgiven but a block is kept.
record_success_keeping_block(limiter, key) ==
    IF key \in DOMAIN limiter /\ IsSome(limiter[key].blocked_until)
    THEN MapPut(limiter, key, LoginAttempt(0, limiter[key].blocked_until))
    ELSE MapRemove(limiter, key)

\* LoginRateLimiter::record_success
record_success(limiter, key) == MapRemove(limiter, key)

\* No login request is being served.
NoLogins == <<>>

\* SessionStore::new, LoginRateLimiter::new, and the clock at its start.
StoresEmpty ==
    /\ sessions = EmptyMap
    /\ minted = 0
    /\ attempts = EmptyMap
    /\ now = 0

----------------------------------------------------------------------------
(* Characters by code point, for comparing and parsing strings *)

\* U+0060, which a string of this language cannot hold
Grave == "^G"

\* The printable ASCII characters, U+0020 to U+007E, in code point order.
AsciiPrintable ==
    <<" ", "!", "\"", "#", "$", "%", "&", "'", "(", ")", "*", "+", ",", "-",
      ".", "/", "0", "1", "2", "3", "4", "5", "6", "7", "8", "9", ":", ";",
      "<", "=", ">", "?", "@", "A", "B", "C", "D", "E", "F", "G", "H", "I",
      "J", "K", "L", "M", "N", "O", "P", "Q", "R", "S", "T", "U", "V", "W",
      "X", "Y", "Z", "[", "\\", "]", "^", "_", Grave, "a", "b", "c", "d", "e",
      "f", "g", "h", "i", "j", "k", "l", "m", "n", "o", "p", "q", "r", "s",
      "t", "u", "v", "w", "x", "y", "z", "{", "|", "}", "~">>

CodePoint(c) ==
    IF c = CtrlA THEN 1
    ELSE IF c = "\t" THEN 9
    ELSE IF c = "\n" THEN 10
    ELSE IF c \in DOMAIN NonAsciiCodePoints THEN NonAsciiCodePoints[c]
    ELSE 31 + (CHOOSE i \in 1..Len(AsciiPrintable) : AsciiPrintable[i] = c)

\* char::to_lowercase, on the characters above
LowerChar(c) ==
    IF CodePoint(c) >= 65 /\ CodePoint(c) <= 90
    THEN AsciiPrintable[CodePoint(c) + 32 - 31]
    ELSE c

\* str::to_lowercase
to_lowercase(s) == [i \in 1..Len(s) |-> LowerChar(s[i])]

\* Ord for str: the order of the bytes, a proper prefix first
RECURSIVE StrLess(_, _)
StrLess(a, b) ==
    IF b = <<>> THEN FALSE
    ELSE IF a = <<>> THEN TRUE
    ELSE IF Head(a) # Head(b) THEN CodePoint(Head(a)) < CodePoint(Head(b))
    ELSE StrLess(Tail(a), Tail(b))

IsAsciiDigit(c) == CodePoint(c) >= 48 /\ CodePoint(c) <= 57

RECURSIVE DigitsValue(_, _)
DigitsValue(digits, acc) ==
    IF digits = <<>> THEN acc
    ELSE DigitsValue(Tail(digits), 10 * acc + (CodePoint(Head(digits)) - 48))

\* str::parse::<u64>: an optional "+" and then one ASCII digit or more.  The
\* strings of the model are short, so the value stays below u64::MAX, past
\* which the parse fails as well.
parse_u64(s) ==
    LET digits == IF s # <<>> /\ Head(s) = "+" THEN Tail(s) ELSE s IN
    IF digits = <<>> THEN [ok |-> FALSE]
    ELSE IF \E i \in 1..Len(digits) : ~IsAsciiDigit(digits[i]) THEN [ok |-> FALSE]
    ELSE Ok(DigitsValue(digits, 0))

\* str::split_once on a character: None, or the parts before and after its
\* first occurrence.
split_once(s, c) ==
    IF ~Contains(s, c) THEN None
    ELSE LET i == CHOOSE k \in 1..Len(s) :
                    s[k] = c /\ \A j \in 1..(k - 1) : s[j] # c
         IN Some(<<SubSeq(s, 1, i - 1), SubSeq(s, i + 1, Len(s))>>)

\* str::strip_prefix
strip_prefix(s, prefix) ==
    IF Len(prefix) <= Len(s) /\ SubSeq(s, 1, Len(prefix)) = prefix
    THEN Some(SubSeq(s, Len(prefix) + 1, Len(s)))
    ELSE None

----------------------------------------------------------------------------
(* handlers.rs: the pure helpers *)

ByteRange(start, end) == [start |-> start, end |-> end]
\* ByteRange::len
RangeLen(range) == range.end - range.start + 1

Min(a, b) == IF a <= b THEN a ELSE b

\* Mutant: an end past the last byte is not brought back to it.
parse_range_header_unclamped(raw_header, file_size) ==
    IF file_size = 0
    THEN invalid_range("Range request cannot be satisfied for an empty file.")
    ELSE LET raw_range == strip_prefix(Trim(raw_header),
                                       <<"b", "y", "t", "e", "s", "=">>) IN
    IF ~IsSome(raw_range) THEN invalid_range("Only bytes ranges are supported.")
    ELSE IF Contains(Unwrap(raw_range), ",")
         THEN invalid_range("Multiple ranges are not supported.")
    ELSE LET parts == split_once(Unwrap(raw_range), "-") IN
    IF ~IsSome(parts) THEN invalid_range("Malformed Range header.")
    ELSE LET start_part == Unwrap(parts)[1]
             end_part == Unwrap(parts)[2]
         IN
    IF start_part = <<>>
    THEN LET suffix_len == parse_u64(end_part) IN
         IF ~suffix_len.ok THEN invalid_range("Malformed suffix byte range.")
         ELSE IF suffix_len.val = 0
              THEN invalid_range("Suffix byte range must be greater than zero.")
              ELSE Ok(ByteRange(file_size - Min(suffix_len.val, file_size),
                                file_size - 1))
    ELSE LET start == parse_u64(start_part) IN
    IF ~start.ok THEN invalid_range("Malformed start byte range.")
    ELSE IF start.val >= file_size
         THEN invalid_range("Range start is beyond end of file.")
    ELSE LET parsed_end == IF end_part = <<>> THEN Ok(file_size - 1)
                           ELSE parse_u64(end_part) IN
    IF ~parsed_end.ok THEN invalid_range("Malformed end byte range.")
    ELSE LET end == parsed_end.val IN
         IF end < start.val
         THEN invalid_range("Range end cannot be smaller than range start.")
         ELSE Ok(ByteRange(start.val, end))

\* Mutant: a suffix longer than the file is rejected, not cut to the file.
parse_range_header_strict_suffix(raw_header, file_size) ==
    IF file_size = 0
    THEN invalid_range("Range request cannot be satisfied for an empty file.")
    ELSE LET raw_range == strip_prefix(Trim(raw_header),
                                       <<"b", "y", "t", "e", "s", "=">>) IN
    IF ~IsSome(raw_range) THEN invalid_range("Only bytes ranges are supported.")
    ELSE IF Contains(Unwrap(raw_range), ",")
         THEN invalid_range("Multiple ranges are not supported.")
    ELSE LET parts == split_once(Unwrap(raw_range), "-") IN
    IF ~IsSome(parts) THEN invalid_range("Malformed Range header.")
    ELSE LET start_part == Unwrap(parts)[1]
             end_part == Unwrap(parts)[2]
         IN
    IF start_part = <<>>
    THEN LET suffix_len == parse_u64(end_part) IN
         IF ~suffix_len.ok THEN invalid_range("Malformed suffix byte range.")
         ELSE IF suffix_len.val = 0
              THEN invalid_range("Suffix byte range must be greater than zero.")
         ELSE IF suffix_len.val > file_size
              THEN invalid_range("Suffix byte range is longer than the file.")
              ELSE Ok(ByteRange(file_size - suffix_len.val, file_size - 1))
    ELSE LET start == parse_u64(start_part) IN
    IF ~start.ok THEN invalid_range("Malformed start byte range.")
    ELSE IF start.val >= file_size
         THEN invalid_range("Range start is beyond end of file.")
    ELSE LET parsed_end == IF end_part = <<>> THEN Ok(file_size - 1)
                           ELSE parse_u64(end_part) IN
    IF ~parsed_end.ok THEN invalid_range("Malformed end byte range.")
    ELSE LET end == IF parsed_end.val >= file_size THEN file_size - 1
                    ELSE parsed_end.val IN
         IF end < start.val
         THEN invalid_range("Range end cannot be smaller than range start.")
         ELSE Ok(ByteRange(start.val, end))

\* Mutant: an end before the start is let through.
parse_range_header_unordered(raw_header, file_size) ==
    IF file_size = 0
    THEN invalid_range("Range request cannot be satisfied for an empty file.")
    ELSE LET raw_range == strip_prefix(Trim(raw_header),
                                       <<"b", "y", "t", "e", "s", "=">>) IN
    IF ~IsSome(raw_range) THEN invalid_range("Only bytes ranges are supported.")
    ELSE IF Contains(Unwrap(raw_range), ",")
         THEN invalid_range("Multiple ranges are not supported.")
    ELSE LET parts == split_once(Unwrap(raw_range), "-") IN
    IF ~IsSome(parts) THEN invalid_range("Malformed Range header.")
    ELSE LET start_part == Unwrap(parts)[1]
             end_part == Unwrap(parts)[2]
         IN
    IF start_part = <<>>
    THEN LET suffix_len == parse_u64(end_part) IN
         IF ~suffix_len.ok THEN invalid_range("Malformed suffix byte range.")
         ELSE IF suffix_len.val = 0
              THEN invalid_range("Suffix byte range must be greater than zero.")
              ELSE Ok(ByteRange(file_size - Min(suffix_len.val, file_size),
                                file_size - 1))
    ELSE LET start == parse_u64(start_part) IN
    IF ~start.ok THEN invalid_range("Malformed start byte range.")
    ELSE IF start.val >= file_size
         THEN invalid_range("Range start is beyond end of file.")
    ELSE LET parsed_end == IF end_part = <<>> THEN Ok(file_size - 1)
                           ELSE parse_u64(end_part) IN
    IF ~parsed_end.ok THEN invalid_range("Malformed end byte range.")
    ELSE LET end == IF parsed_end.val >= file_size THEN file_size - 1
                    ELSE parsed_end.val IN
         Ok(ByteRange(start.val, end))

parse_range_header(raw_header, file_size) ==
    IF file_size = 0
    THEN invalid_range("Range request cannot be satisfied for an empty file.")
    ELSE LET raw_range == strip_prefix(Trim(raw_header),
                                       <<"b", "y", "t", "e", "s", "=">>) IN
    IF ~IsSome(raw_range) THEN invalid_range("Only bytes ranges are supported.")
    ELSE IF Contains(Unwrap(raw_range), ",")
         THEN invalid_range("Multiple ranges are not supported.")
    ELSE LET parts == split_once(Unwrap(raw_range), "-") IN
    IF ~IsSome(parts) THEN invalid_range("Malformed Range header.")
    ELSE LET start_part == Unwrap(parts)[1]
             end_part == Unwrap(parts)[2]
         IN
    IF start_part = <<>>
    THEN LET suffix_len == parse_u64(end_part) IN
         IF ~suffix_len.ok THEN invalid_range("Malformed suffix byte range.")
         ELSE IF suffix_len.val = 0
              THEN invalid_range("Suffix byte range must be greater than zero.")
              ELSE Ok(ByteRange(file_size - Min(suffix_len.val, file_size),
                                file_size - 1))
    ELSE LET start == parse_u64(start_part) IN
    IF ~start.ok THEN invalid_range("Malformed start byte range.")
    ELSE IF start.val >= file_size
         THEN invalid_range("Range start is beyond end of file.")
    ELSE LET parsed_end == IF end_part = <<>> THEN Ok(file_size - 1)
                           ELSE parse_u64(end_part) IN
    IF ~parsed_end.ok THEN invalid_range("Malformed end byte range.")
    ELSE LET end == IF parsed_end.val >= file_size THEN file_size - 1
                    ELSE parsed_end.val IN
         IF end < start.val
         THEN invalid_range("Range end cannot be smaller than range start.")
         ELSE Ok(ByteRange(start.val, end))

\* What current_session returns and the session map it leaves; jar is the
\* value of the session cookie, if the request has one.
current_session(store, jar, t) ==
    IF ~IsSome(jar) THEN [result |-> None, sessions |-> store]
    ELSE get_valid(store, Unwrap(jar), t)

\* Mutant: any live session opens every scope.
is_scope_authorized_any_session(session, scope) == IsSome(session)

\* Mutant: a held scope also opens the scopes below it.
is_scope_authorized_below(session, scope) ==
    IF IsSome(session)
    THEN \E held \in Unwrap(session).scopes :
            \/ held = scope
            \/ held = <<>>
            \/ IsSome(strip_prefix(scope, held \o <<"/">>))
    ELSE FALSE

is_scope_authorized(session, scope) ==
    IF IsSome(session) THEN scope \in Unwrap(session).scopes ELSE FALSE

\* Path::file_name is the last component
file_name_is_marker(path) ==
    IF path = <<>> THEN FALSE ELSE is_private_marker_name(path[Len(path)])

\* str::as_bytes: the UTF-8 octets of a character with the given code point
utf8_bytes(cp) ==
    IF cp < 128 THEN <<cp>>
    ELSE IF cp < 2048 THEN <<192 + (cp \div 64), 128 + (cp % 64)>>
    ELSE IF cp < 65536
         THEN <<224 + (cp \div 4096), 128 + ((cp \div 64) % 64),
                128 + (cp % 64)>>
         ELSE <<240 + (cp \div 262144), 128 + ((cp \div 4096) % 64),
                128 + ((cp \div 64) % 64), 128 + (cp % 64)>>

RECURSIVE as_bytes(_)
as_bytes(s) ==
    IF s = <<>> THEN <<>>
    ELSE utf8_bytes(CodePoint(Head(s))) \o as_bytes(Tail(s))

\* char::from(u8), on the printable octets
char_from(byte) == AsciiPrintable[byte - 31]

\* Mutant: the digits above nine are written in lower case.
to_hex_lower(nibble) ==
    IF nibble <= 9 THEN char_from(48 + nibble)
    ELSE IF nibble <= 15 THEN char_from(97 + (nibble - 10))
    ELSE "0"

to_hex_upper(nibble) ==
    IF nibble <= 9 THEN char_from(48 + nibble)
    ELSE IF nibble <= 15 THEN char_from(65 + (nibble - 10))
    ELSE "0"

\* byte.is_ascii_alphanumeric() || b"!#$&+-.^_`|~".contains(&byte)
is_rfc5987_attr_char(byte) ==
    \/ byte >= 48 /\ byte <= 57
    \/ byte >= 65 /\ byte <= 90
    \/ byte >= 97 /\ byte <= 122
    \/ byte \in {CodePoint(c) : c \in {"!", "#", "$", "&", "+", "-", ".", "^",
                                        "_", Grave, "|", "~"}}

RECURSIVE rfc5987_encode_bytes(_)
rfc5987_encode_bytes(bytes) ==
    IF bytes = <<>> THEN <<>>
    ELSE (IF is_rfc5987_attr_char(Head(bytes))
          THEN <<char_from(Head(bytes))>>
          ELSE <<"%", to_hex_upper(Head(bytes) \div 16),
                 to_hex_upper(Head(bytes) % 16)>>)
         \o rfc5987_encode_bytes(Tail(bytes))

rfc5987_encode(value) == rfc5987_encode_bytes(as_bytes(value))

\* str::replace of one character by a text
RECURSIVE replace(_, _, _)
replace(s, from, to) ==
    IF s = <<>> THEN <<>>
    ELSE (IF Head(s) = from THEN to ELSE <<Head(s)>>)
         \o replace(Tail(s), from, to)

escape_quoted_string(value) ==
    replace(replace(value, "\\", <<"\\", "\\">>), "\"", <<"\\", "\"">>)

\* Mutant: the fallback keeps the spaces around the name.
ascii_filename_fallback_untrimmed(raw_name) ==
    LET out == [i \in 1..Len(raw_name) |->
                   IF /\ CodePoint(raw_name[i]) < 128
                      /\ ~(CodePoint(raw_name[i]) < 32
                           \/ CodePoint(raw_name[i]) = 127)
                      /\ raw_name[i] # "\""
                      /\ raw_name[i] # "\\"
                   THEN raw_name[i]
                   ELSE IF IsWhitespace(raw_name[i]) THEN " "
                   ELSE "_"]
    IN  IF Trim(out) = <<>> THEN <<"f", "i", "l", "e">> ELSE out

ascii_filename_fallback(raw_name) ==
    LET out == [i \in 1..Len(raw_name) |->
                   IF /\ CodePoint(raw_name[i]) < 128
                      /\ ~(CodePoint(raw_name[i]) < 32
                           \/ CodePoint(raw_name[i]) = 127)
                      /\ raw_name[i] # "\""
                      /\ raw_name[i] # "\\"
                   THEN raw_name[i]
                   ELSE IF IsWhitespace(raw_name[i]) THEN " "
                   ELSE "_"]
        trimmed == Trim(out)
    IN  IF trimmed = <<>> THEN <<"f", "i", "l", "e">> ELSE trimmed

\* format!("inline; filename=\"{escaped_fallback}\"; filename*=UTF-8''{encoded}")
InlineFilename ==
    <<"i", "n", "l", "i", "n", "e", ";", " ",
      "f", "i", "l", "e", "n", "a", "m", "e", "=", "\"">>
ExtendedFilename ==
    <<"\"", ";", " ", "f", "i", "l", "e", "n", "a", "m", "e", "*", "=",
      "U", "T", "F", "-", "8", "'", "'">>

\* path is an absolute path; its file_name() is its last component, and
\* there is none for the root.  The names of the model are text, which
\* to_string_lossy leaves as it is.
content_disposition_inline(path) ==
    LET raw_name == IF path = <<>> THEN <<"f", "i", "l", "e">>
                    ELSE path[Len(path)]
    IN  InlineFilename \o escape_quoted_string(ascii_filename_fallback(raw_name))
            \o ExtendedFilename \o rfc5987_encode(raw_name)

----------------------------------------------------------------------------
(* handlers.rs: list_handler.  A request is served in one step: the         *)
(* filesystem and the stores do not change while a handler runs.            *)

\* The names tokio::fs::read_dir yields for a directory, and the orders it
\* may yield them in (the order is the operating system's).
read_dir(dir) ==
    {q[Len(q)] : q \in {p \in EntryPaths :
                          /\ RootDir \o SubSeq(p, 1, Len(p) - 1) = dir
                          /\ fs[p].kind # "none"}}
Orders(names) ==
    Let(Cardinality(names), LAMBDA n :
        {order \in [1..n -> names] :
            \A i, j \in 1..n : order[i] = order[j] => i = j})

ListEntry(name, path, kind, size, requires_auth, authorized) ==
    [name |-> name, path |-> path, kind |-> kind, size |-> size,
     requires_auth |-> requires_auth, authorized |-> authorized]

\* tokio::fs::metadata(path).map_err(|err| ApiError::from_io(err, context)),
\* and the same for DirEntry::file_type, which does not follow a symlink
metadata_or(path, context) ==
    Let(metadata(path), LAMBDA m :
        IF m.ok THEN Ok(m.entry) ELSE from_io(m.kind, context))
file_type_or(path, context) ==
    Let(symlink_metadata(path), LAMBDA m :
        IF m.ok THEN Ok(m.entry) ELSE from_io(m.kind, context))

\* One turn of the while loop of list_handler, for a name read_dir yields:
\* the entry to push, none when the turn ends in `continue`, or the error
\* that ends the request.  mtime and mime are not part of the model (the
\* filesystem keeps no times, and the MIME type comes from the extension
\* alone).
list_entry(root, relative_path, name, session) ==
    IF is_private_marker_name(name) THEN Ok(None)
    ELSE
    Try(file_type_or(root \o Components(relative_path) \o <<name>>,
                     "directory entry"), LAMBDA file_type :
    IF file_type.kind = "symlink" THEN Ok(None)
    ELSE IF file_type.kind \notin {"dir", "file"} THEN Ok(None)
    ELSE
    Let(IF relative_path = <<>> THEN name
        ELSE relative_path \o <<"/">> \o name, LAMBDA entry_path :
    Try(resolve_existing_path(root, entry_path), LAMBDA resolved_entry :
    Try(metadata_or(resolved_entry, "directory entry"), LAMBDA entry_meta :
    Try(IF file_type.kind = "dir" THEN has_private_hide_marker(resolved_entry)
        ELSE Ok(FALSE), LAMBDA hidden :
    IF hidden THEN Ok(None)
    ELSE
    Try(find_private_anchor(root, resolved_entry, file_type.kind = "dir"),
        LAMBDA entry_anchor :
    Ok(Some(ListEntry(name, entry_path, file_type.kind,
                      IF file_type.kind = "file"
                      THEN Some(Len(entry_meta.data)) ELSE None,
                      IsSome(entry_anchor),
                      IF IsSome(entry_anchor)
                      THEN is_scope_authorized(session,
                                               Unwrap(entry_anchor).scope_rel)
                      ELSE TRUE)))))))))

\* The while loop over the names from the i-th on: the entries pushed, or
\* the error that ends the request.
RECURSIVE ListLoop(_, _, _, _, _, _)
ListLoop(root, relative_path, names, i, session, entries) ==
    IF i > Len(names) THEN Ok(entries)
    ELSE Try(list_entry(root, relative_path, names[i], session), LAMBDA entry :
         Let(entries \o entry, LAMBDA pushed :
             ListLoop(root, relative_path, names, i + 1, session, pushed)))

\* The comparator of entries.sort_by: directories first, then by the
\* lowercased name.
EntryLess(a, b) ==
    IF a.kind # b.kind THEN a.kind = "dir"
    ELSE StrLess(to_lowercase(a.name), to_lowercase(b.name))

\* slice::sort_by, a stable sort: x goes after the entries not greater.
RECURSIVE InsertSorted(_, _)
InsertSorted(sorted, x) ==
    IF sorted = <<>> THEN <<x>>
    ELSE IF EntryLess(x, Head(sorted)) THEN <<x>> \o sorted
    ELSE <<Head(sorted)>> \o InsertSorted(Tail(sorted), x)

RECURSIVE SortEntries(_)
SortEntries(entries) ==
    IF entries = <<>> THEN <<>>
    ELSE InsertSorted(SortEntries(SubSeq(entries, 1, Len(entries) - 1)),
                      entries[Len(entries)])

ListResponse(path, entries, requires_auth, authorized) ==
    [path |-> path, entries |-> entries, requires_auth |-> requires_auth,
     authorized |-> authorized]

\* list_handler: the response and the session map it leaves.  order is the
\* order read_dir yields the names of the directory in.
list_handler(store, jar, query_path, t, order) ==
    LET Refuse(e) == [response |-> e, sessions |-> store] IN
    TryOr(normalize_relative_path(query_path), Refuse, LAMBDA relative_path :
    TryOr(ensure_not_marker_path(relative_path), Refuse, LAMBDA not_marker :
    TryOr(resolve_existing_path(RootDir, relative_path), Refuse, LAMBDA resolved :
    TryOr(metadata_or(resolved, "directory"), Refuse, LAMBDA meta :
    IF meta.kind # "dir" THEN Refuse(bad_request("Path is not a directory."))
    ELSE
    Let(current_session(store, jar, t), LAMBDA session :
    LET Reply(r) == [response |-> r, sessions |-> session.sessions] IN
    TryOr(find_private_anchor(RootDir, resolved, TRUE), Reply, LAMBDA anchor :
    IF IsSome(anchor)
       /\ ~is_scope_authorized(session.result, Unwrap(anchor).scope_rel)
    THEN Reply(auth_required)
    ELSE
    TryOr(ListLoop(RootDir, relative_path, order, 1, session.result, <<>>),
          Reply, LAMBDA entries :
    Reply(Ok(ListResponse(relative_path, SortEntries(entries),
                          IsSome(anchor), TRUE))))))))))

----------------------------------------------------------------------------
(* handlers.rs: serve_file_response and the two handlers in front of it *)

\* HeaderValue::to_str: the text of a header value whose every octet is a
\* visible ASCII character, a space or a tab.
to_str(value) ==
    IF \A i \in 1..Len(value) :
           \/ value[i] = "\t"
           \/ CodePoint(value[i]) >= 32 /\ CodePoint(value[i]) < 127
    THEN Some(value)
    ELSE None

\* Mutant: every file response is sent as the whole content.
FileResponse_whole_status(status, disposition, content_length, content_range, body) ==
    Ok([status |-> 200, content_disposition |-> disposition,
        accept_ranges |-> "bytes",
        content_length |-> content_length, content_range |-> content_range,
        body |-> body])

\* The response of a served file.  Content-Type comes from the extension of
\* the name alone (mime_guess) and is left out.
FileResponse(status, disposition, content_length, content_range, body) ==
    Ok([status |-> status, content_disposition |-> disposition,
        accept_ranges |-> "bytes",
        content_length |-> content_length, content_range |-> content_range,
        body |-> body])

\* serve_file_response: the response and the session map it leaves.
\* range_header is the value of the Range header, if the request has one.
serve_file_response(store, jar, range_header, relative_path, t) ==
    LET Refuse(e) == [response |-> e, sessions |-> store] IN
    TryOr(ensure_not_marker_path(relative_path), Refuse, LAMBDA not_marker :
    IF relative_path = <<>>
    THEN Refuse(bad_request("Path must reference a file."))
    ELSE
    TryOr(resolve_existing_path(RootDir, relative_path), Refuse, LAMBDA resolved :
    TryOr(metadata_or(resolved, "file"), Refuse, LAMBDA meta :
    IF meta.kind # "file" THEN Refuse(bad_request("Path is not a file."))
    ELSE IF file_name_is_marker(resolved)
    THEN Refuse(not_found("File not found."))
    ELSE
    Let(current_session(store, jar, t), LAMBDA session :
    LET Reply(r) == [response |-> r, sessions |-> session.sessions] IN
    TryOr(find_private_anchor(RootDir, resolved, FALSE), Reply, LAMBDA anchor :
    IF IsSome(anchor)
       /\ ~is_scope_authorized(session.result, Unwrap(anchor).scope_rel)
    THEN Reply(auth_required)
    ELSE
    Let(Len(meta.data), LAMBDA file_size :
    Let(content_disposition_inline(resolved), LAMBDA content_disposition :
    Let(IF IsSome(range_header) THEN to_str(Unwrap(range_header)) ELSE None,
        LAMBDA range_text :
    IF ~IsSome(range_text)
    THEN Reply(FileResponse(200, content_disposition, file_size, None,
                            meta.data))
    ELSE
    TryOr(parse_range_header(Unwrap(range_text), file_size), Reply,
          LAMBDA value :
    Reply(FileResponse(206, content_disposition, RangeLen(value),
              Some("bytes " \o ToString(value.start) \o "-"
                     \o ToString(value.end) \o "/" \o ToString(file_size)),
              SubSeq(meta.data, value.start + 1,
                     value.start + RangeLen(value)))))))))))))

file_handler(store, jar, range_header, query_path, t) ==
    LET Refuse(e) == [response |-> e, sessions |-> store] IN
    TryOr(normalize_relative_path(query_path), Refuse, LAMBDA relative_path :
          serve_file_response(store, jar, range_header, relative_path, t))

direct_file_handler(store, jar, range_header, raw_path, t) ==
    LET Refuse(e) == [response |-> e, sessions |-> store] IN
    TryOr(normalize_relative_path(Some(raw_path)), Refuse, LAMBDA relative_path :
          serve_file_response(store, jar, range_header, relative_path, t))

----------------------------------------------------------------------------
(* handlers.rs: login_handler, logout_handler, me_handler *)

\* session.rs: unix_to_rfc3339, for the first minute of the epoch, where
\* the clock of the model stays.
unix_to_rfc3339(timestamp) ==
    "1970-01-01T00:00:" \o (IF timestamp < 10 THEN "0" ELSE "")
        \o ToString(timestamp) \o "Z"

RetryMessage(remaining) ==
    "Too many login failures. Retry in " \o ToString(remaining) \o " seconds."

\* u64::saturating_sub
saturating_sub(a, b) == IF a >= b THEN a - b ELSE 0

\* login_handler: the response, the session cookie it sets if any, and the
\* two maps it leaves; minted tells whether the id uuid was used.
login_handler(store, limiter, jar, payload, client_ip, t, uuid, ttl_seconds, max_failures, block_seconds) ==
    LET Refused(e, attempts_left) ==
            [response |-> e, set_cookie |-> None, sessions |-> store,
             attempts |-> attempts_left, minted |-> FALSE]
        Refuse(e) == Refused(e, limiter)
    IN
    TryOr(normalize_relative_path(Some(payload.path)), Refuse,
          LAMBDA relative_path :
    TryOr(ensure_not_marker_path(relative_path), Refuse, LAMBDA not_marker :
    TryOr(resolve_existing_path(RootDir, relative_path), Refuse, LAMBDA resolved :
    TryOr(metadata_or(resolved, "path"), Refuse, LAMBDA meta :
    TryOr(find_private_anchor(RootDir, resolved, meta.kind = "dir"), Refuse,
          LAMBDA found :
    IF ~IsSome(found) THEN Refuse(bad_request("The target path is public."))
    ELSE
    Let(Unwrap(found), LAMBDA anchor :
    Let(client_ip \o <<":">> \o anchor.scope_rel, LAMBDA limiter_key :
    Let(blocked_until(limiter, limiter_key, t), LAMBDA blocked :
    IF IsSome(blocked.result)
    THEN Refused(rate_limited(RetryMessage(
                     saturating_sub(Unwrap(blocked.result), t))),
                 blocked.attempts)
    ELSE IF payload.password # anchor.password
    THEN Let(record_failure(blocked.attempts, limiter_key, t, max_failures,
                            block_seconds), LAMBDA failure :
             Refused(IF IsSome(failure.result)
                     THEN rate_limited(RetryMessage(
                              saturating_sub(Unwrap(failure.result), t)))
                     ELSE unauthorized("Invalid password."),
                     failure.attempts))
    ELSE Let(create_or_update(store, jar, anchor.scope_rel, ttl_seconds, t,
                              uuid), LAMBDA created :
         [response |-> Ok([ok |-> TRUE, scope |-> anchor.scope_rel,
                           expires_at |->
                               unix_to_rfc3339(created.session.expires_at)]),
          set_cookie |-> Some(created.session_id),
          sessions |-> created.sessions,
          attempts |-> record_success(blocked.attempts, limiter_key),
          minted |-> created.minted])))))))))

\* logout_handler: the response, the cookie it sets (an empty one that
\* expires at once) and the session map it leaves.
logout_handler(store, jar) ==
    [response |-> Ok([ok |-> TRUE]), set_cookie |-> Some(<<>>),
     sessions |-> IF IsSome(jar) THEN remove(store, Unwrap(jar)) ELSE store]

\* me_handler.  scopes is the set the Vec is collected from, in no order.
me_handler(store, jar, t) ==
    Let(current_session(store, jar, t), LAMBDA session :
    [response |->
         IF IsSome(session.result)
         THEN Ok([authenticated |-> TRUE,
                  scopes |-> Unwrap(session.result).scopes,
                  expires_at |->
                      Some(unix_to_rfc3339(Unwrap(session.result).expires_at))])
         ELSE Ok([authenticated |-> FALSE, scopes |-> {}, expires_at |-> None]),
     sessions |-> session.sessions])

----------------------------------------------------------------------------
(* SpecNorm: normalize_relative_path applied to every short string *)

MaxLen == 4

Chars == {"a", ".", "/", "\\", " ", "\t", CtrlA}

StringsUpTo(n) == UNION {[1..k -> Chars] : k \in 0..n}

NoCall == [op |-> "none"]

InitNorm ==
    /\ raw \in {None} \cup {Some(s) : s \in StringsUpTo(MaxLen)}
    /\ fs = EmptyFs
    /\ StoresEmpty
    /\ inflight = NoLogins
    /\ ret = NoCall

NormalizeCall ==
    /\ ret = NoCall
    /\ ret' = [op |-> "normalize", result |-> normalize_relative_path(raw)]
    /\ UNCHANGED <<raw, inflight, fs, storeVars>>

NextNorm == NormalizeCall

SpecNorm == InitNorm /\ [][NextNorm]_vars

\* What the claims about normalize_relative_path say of a string s.
HasDotDotSegment(s) == \E i \in 1..Len(Split(s, "/")) : Split(s, "/")[i] = DotDot
HasLeadingSlash(s) == s # <<>> /\ s[1] = "/"
HasEmptySegment(s) ==
    s # <<>> /\ \E i \in 1..Len(Split(s, "/")) : Split(s, "/")[i] = <<>>
HasBackslash(s) == \E i \in 1..Len(s) : s[i] = "\\"
IsListedAsRejected(s) ==
    HasDotDotSegment(s) \/ HasLeadingSlash(s) \/ HasEmptySegment(s) \/ HasBackslash(s)

NormalizeReturned == ret.op = "normalize"

\* C6 as stated: every string containing a ".." segment, a leading "/", an
\* empty segment or a backslash is rejected by normalize_relative_path.
C6_AllListedRejected ==
    (NormalizeReturned /\ IsSome(raw) /\ IsListedAsRejected(Unwrap(raw)))
        => ~ret.result.ok

\* C6 amended: every string containing a ".." segment, a leading "/", an empty
\* segment or a backslash is rejected with a bad-request error, unless the
\* string trimmed of surrounding whitespace is exactly "/", which is the root.
C6_ListedRejectedUnlessRoot ==
    (NormalizeReturned /\ IsSome(raw) /\ IsListedAsRejected(Unwrap(raw))
        /\ Trim(Unwrap(raw)) # Slash)
        => (~ret.result.ok /\ ret.result.code = "BAD_REQUEST")

\* C6 witness: "../a" was normalized and rejected.
C6_Witness ==
    /\ NormalizeReturned
    /\ raw = Some(<<".", ".", "/", "a">>)
    /\ ~ret.result.ok

\* A string with no surrounding whitespace that is a "/"-joined sequence of
\* non-empty segments, none "." or "..", none with a backslash or a control
\* character.
IsCleanRelativePath(s) ==
    /\ s # <<>>
    /\ ~IsWhitespace(s[1]) /\ ~IsWhitespace(s[Len(s)])
    /\ \A i \in 1..Len(s) : s[i] # "\\" /\ ~IsControl(s[i])
    /\ s[1] # "/" /\ s[Len(s)] # "/"
    /\ \A i \in 1..(Len(s) - 1) : ~(s[i] = "/" /\ s[i + 1] = "/")
    /\ \A i, j \in 1..Len(s) :
          (i <= j /\ (i = 1 \/ s[i - 1] = "/") /\ (j = Len(s) \/ s[j + 1] = "/"))
              => SubSeq(s, i, j) \notin {Dot, DotDot}

\* C7: normalize_relative_path returns the empty path for an absent, empty or
\* "/" input, and returns a clean relative path unchanged.
C7_NormalizeRootAndIdentity ==
    NormalizeReturned =>
        /\ (raw = None \/ raw = Some(<<>>) \/ raw = Some(Slash))
              => ret.result = Ok(<<>>)
        /\ (IsSome(raw) /\ IsCleanRelativePath(Unwrap(raw)))
              => ret.result = Ok(Unwrap(raw))

\* C7 witness: the two-segment path "a/.a" came back unchanged.
C7_Witness ==
    /\ NormalizeReturned
    /\ raw = Some(<<"a", "/", ".", "a">>)
    /\ ret.result = Ok(<<"a", "/", ".", "a">>)

----------------------------------------------------------------------------
(* SpecFs: the environment builds and changes the tree; resolve_existing_   *)
(* path, find_private_anchor and has_private_hide_marker are called on it.  *)

\* The relative paths asked for: every path of up to three segments a, b.
RelSegments == UNION {[1..k -> {NameA, NameB}] : k \in 0..3}
RelPaths == {Join(segs, "/") : segs \in RelSegments}

\* The canonical paths resolve_existing_path hands to its callers.
ResolvedPaths ==
    {resolve_existing_path(RootDir, rel).val :
        rel \in {r \in RelPaths : resolve_existing_path(RootDir, r).ok}}

InitFs ==
    /\ raw = None
    /\ fs = EmptyFs
    /\ StoresEmpty
    /\ inflight = NoLogins
    /\ ret = NoCall

\* The caller takes the returned value; the next call can be made.
Return ==
    /\ ret # NoCall
    /\ ret' = NoCall
    /\ UNCHANGED <<raw, inflight, fs, storeVars>>

FsPut(p, e) ==
    /\ ret = NoCall
    /\ fs[p].kind = "none"
    /\ ParentIsDir(p)
    /\ fs' = [fs EXCEPT ![p] = e]
    /\ ret' = NoCall
    /\ UNCHANGED <<raw, inflight, storeVars>>

FsRemove(p) ==
    /\ ret = NoCall
    /\ fs[p].kind # "none"
    /\ ~HasChildren(p)
    /\ fs' = [fs EXCEPT ![p] = NoEntry]
    /\ ret' = NoCall
    /\ UNCHANGED <<raw, inflight, storeVars>>

ResolveCall(rel) ==
    /\ ret = NoCall
    /\ ret' = [op |-> "resolve_existing_path", relative_path |-> rel,
               result |-> resolve_existing_path(RootDir, rel)]
    /\ UNCHANGED <<raw, inflight, fs, storeVars>>

FindAnchorCall(target) ==
    LET is_dir == metadata(target).entry.kind = "dir" IN
    /\ ret = NoCall
    /\ ret' = [op |-> "find_private_anchor", target_path |-> target,
               target_is_dir |-> is_dir,
               result |-> find_private_anchor(RootDir, target, is_dir)]
    /\ UNCHANGED <<raw, inflight, fs, storeVars>>

HideMarkerCall(dir) ==
    /\ ret = NoCall
    /\ dir # RootDir
    /\ metadata(dir).entry.kind = "dir"
    /\ ret' = [op |-> "has_private_hide_marker", dir |-> dir,
               result |-> has_private_hide_marker(dir)]
    /\ UNCHANGED <<raw, inflight, fs, storeVars>>

NextFs ==
    \/ \E p \in ChainPaths \cup MarkerPaths :
          \E e \in AllEntries(p) : FsPut(p, e)
    \/ \E p \in ChainPaths \cup MarkerPaths : FsRemove(p)
    \/ \E rel \in RelPaths : ResolveCall(rel)
    \/ ret = NoCall /\ \E target \in ResolvedPaths : FindAnchorCall(target)
    \/ ret = NoCall /\ \E dir \in ResolvedPaths : HideMarkerCall(dir)
    \/ Return

SpecFs == InitFs /\ [][NextFs]_vars

\* The directories from start up to the root, and those of them that carry
\* an entry named .password, whatever its kind.
AncestorsOrSelf(start) == {SubSeq(start, 1, k) : k \in Len(RootDir)..Len(start)}
Carriers(start) ==
    {d \in AncestorsOrSelf(start) :
        EntryAt(Append(d, PASSWORD_MARKER_FILE)).kind # "none"}
Nearest(start) ==
    CHOOSE d \in Carriers(start) : \A e \in Carriers(start) : Len(e) <= Len(d)
ScopeOf(d) == Join(StripPrefix(d, RootDir), "/")
\* Where the walk for the call in ret starts.
WalkStart ==
    IF ret.target_is_dir THEN ret.target_path
    ELSE SubSeq(ret.target_path, 1, Len(ret.target_path) - 1)

FindAnchorReturned == ret.op = "find_private_anchor"
ResolveReturned == ret.op = "resolve_existing_path"

\* C3: find_private_anchor returns the anchor of the nearest ancestor-or-self
\* directory (from the target if it is a directory, else from its parent)
\* carrying a regular .password file, scoped to that directory's root-relative
\* path with the file's trimmed contents as password; an anchor it returns is
\* never that of another directory; and it returns none exactly when no
\* directory from the start up to the root carries a .password.
C3_NearestAnchorWins ==
    FindAnchorReturned =>
        LET c == Carriers(WalkStart)
            marker == EntryAt(Append(Nearest(WalkStart), PASSWORD_MARKER_FILE))
        IN /\ (ret.result = Ok(None)) <=> (c = {})
           /\ (c # {} /\ marker.kind = "file")
                => ret.result = Ok(Some(PrivateAnchor(ScopeOf(Nearest(WalkStart)),
                                                      Trim(marker.data))))
           /\ (ret.result.ok /\ IsSome(ret.result.val))
                => (c # {} /\ Unwrap(ret.result.val).scope_rel
                                  = ScopeOf(Nearest(WalkStart)))

\* C3 witness: with a/.password and the directory a/b without its own
\* .password, the anchor of a/b has scope "a".
C3_Witness ==
    /\ FindAnchorReturned
    /\ ret.target_path = RootDir \o <<NameA, NameB>>
    /\ ret.target_is_dir
    /\ fs[<<NameA, PASSWORD_MARKER_FILE>>].kind = "file"
    /\ fs[<<NameA, NameB, PASSWORD_MARKER_FILE>>].kind = "none"
    /\ ret.result.ok /\ IsSome(ret.result.val)
    /\ Unwrap(ret.result.val).scope_rel = <<"a">>

\* C4: a relative path with a symlink at any of its segments makes
\* resolve_existing_path fail with the forbidden error, never with not-found.
C4_SymlinkSegmentForbidden ==
    (ResolveReturned
        /\ \E i \in 1..Len(Components(ret.relative_path)) :
              LET prefix == SubSeq(Components(ret.relative_path), 1, i) IN
              prefix \in DOMAIN fs /\ fs[prefix].kind = "symlink")
        => (~ret.result.ok /\ ret.result.code = "FORBIDDEN")

\* C4 witness: a is a dangling symlink and "a/b" was refused as forbidden.
C4_Witness ==
    /\ ResolveReturned
    /\ ret.relative_path = <<"a", "/", "b">>
    /\ fs[<<NameA>>] = Symlink(Dangling)
    /\ ~ret.result.ok /\ ret.result.code = "FORBIDDEN"

\* C5: a path resolve_existing_path returns is the root or below it, names an
\* existing directory or regular file, and has no symlink at any segment below
\* the root.
C5_ResolvedIsConfined ==
    (ResolveReturned /\ ret.result.ok) =>
        /\ StartsWith(ret.result.val, RootDir)
        /\ EntryAt(ret.result.val).kind \in {"dir", "file"}
        /\ \A k \in (Len(RootDir) + 1)..Len(ret.result.val) :
              EntryAt(SubSeq(ret.result.val, 1, k)).kind \notin {"none", "symlink"}

\* C5 witness: "a/b" resolved to the regular file b in the directory a.
C5_Witness ==
    /\ ResolveReturned
    /\ ret.relative_path = <<"a", "/", "b">>
    /\ ret.result = Ok(RootDir \o <<NameA, NameB>>)
    /\ fs[<<NameA, NameB>>].kind = "file"

\* C9: when the nearest directory carrying a .password entry carries a symlink
\* or another non-regular file, find_private_anchor fails with forbidden (it
\* neither returns an anchor nor goes on to a higher ancestor), and
\* has_private_hide_marker fails the same way on such a .private entry.
C9_NonRegularMarkerForbidden ==
    /\ (FindAnchorReturned /\ Carriers(WalkStart) # {}
          /\ EntryAt(Append(Nearest(WalkStart), PASSWORD_MARKER_FILE)).kind
                \in {"symlink", "dir"})
          => (~ret.result.ok /\ ret.result.code = "FORBIDDEN")
    /\ (ret.op = "has_private_hide_marker"
          /\ EntryAt(Append(ret.dir, PRIVATE_MARKER_FILE)).kind \in {"symlink", "dir"})
          => (~ret.result.ok /\ ret.result.code = "FORBIDDEN")

\* C9 witness: a/b/.password is a symlink, a/.password a regular file, and the
\* walk from a/b failed with forbidden.
C9_Witness ==
    /\ FindAnchorReturned
    /\ ret.target_path = RootDir \o <<NameA, NameB>>
    /\ ret.target_is_dir
    /\ fs[<<NameA, NameB, PASSWORD_MARKER_FILE>>].kind = "symlink"
    /\ fs[<<NameA, PASSWORD_MARKER_FILE>>].kind = "file"
    /\ ~ret.result.ok /\ ret.result.code = "FORBIDDEN"

----------------------------------------------------------------------------
(* SpecSession: the operations of SessionStore, called one after another    *)
(* while the clock advances.  A caller reads now_unix() before it waits for *)
(* the lock, so the time it passes is the clock's or an earlier one.        *)

MaxTime == 2
MaxIds == 2
\* config.rs: session_ttl_seconds (1800 by default), scaled to the clock
SessionTtl == 1

\* An id Uuid::new_v4 never yields: what a cookie holds that the server did
\* not set.  The ids it yields are 1, 2, ..., never one twice.
ForgedSid == 0
CookieValues == {ForgedSid} \cup 1..minted

StoreScopes == {<<"a">>, <<"a", "/", "b">>}

InitSession ==
    /\ raw = None
    /\ fs = EmptyFs
    /\ StoresEmpty
    /\ inflight = NoLogins
    /\ ret = NoCall

Tick ==
    /\ ret = NoCall
    /\ now < MaxTime
    /\ now' = now + 1
    /\ UNCHANGED <<raw, inflight, fs, sessions, minted, attempts, ret>>

ReturnStore ==
    /\ ret # NoCall
    /\ ret' = NoCall
    /\ UNCHANGED <<raw, inflight, fs, storeVars>>

GetValidCall(sid, t) ==
    LET r == get_valid(sessions, sid, t) IN
    /\ ret = NoCall
    /\ sessions' = r.sessions
    /\ ret' = [op |-> "get_valid", sid |-> sid, now |-> t,
               before |-> sessions, result |-> r.result]
    /\ UNCHANGED <<raw, inflight, fs, minted, attempts, now>>

CreateOrUpdateCall(current_sid, scope, t) ==
    LET r == create_or_update(sessions, current_sid, scope, SessionTtl, t,
                              minted + 1) IN
    /\ ret = NoCall
    /\ r.minted => minted < MaxIds
    /\ sessions' = r.sessions
    /\ minted' = IF r.minted THEN minted + 1 ELSE minted
    /\ ret' = [op |-> "create_or_update", current_sid |-> current_sid,
               scope |-> scope, now |-> t, before |-> sessions,
               session_id |-> r.session_id, session |-> r.session]
    /\ UNCHANGED <<raw, inflight, fs, attempts, now>>

RemoveCall(sid) ==
    /\ ret = NoCall
    /\ sessions' = remove(sessions, sid)
    /\ ret' = [op |-> "remove", sid |-> sid, before |-> sessions]
    /\ UNCHANGED <<raw, inflight, fs, minted, attempts, now>>

\* handlers.rs: logout_handler and me_handler use the store alone.
LogoutRequest(jar) ==
    LET r == logout_handler(sessions, jar) IN
    /\ ret = NoCall
    /\ sessions' = r.sessions
    /\ ret' = [op |-> "logout", jar |-> jar, before |-> sessions,
               response |-> r.response, set_cookie |-> r.set_cookie]
    /\ UNCHANGED <<raw, inflight, fs, minted, attempts, now>>

MeRequest(jar) ==
    LET r == me_handler(sessions, jar, now) IN
    /\ ret = NoCall
    /\ sessions' = r.sessions
    /\ ret' = [op |-> "me", jar |-> jar, before |-> sessions,
               response |-> r.response]
    /\ UNCHANGED <<raw, inflight, fs, minted, attempts, now>>

NextSession ==
    \/ Tick
    \/ \E sid \in CookieValues, t \in 0..now : GetValidCall(sid, t)
    \/ \E c \in {None} \cup {Some(v) : v \in CookieValues},
          scope \in StoreScopes, t \in 0..now : CreateOrUpdateCall(c, scope, t)
    \/ \E sid \in CookieValues : RemoveCall(sid)
    \/ \E jar \in {None} \cup {Some(v) : v \in CookieValues} : LogoutRequest(jar)
    \/ \E jar \in {None} \cup {Some(v) : v \in CookieValues} : MeRequest(jar)
    \/ ReturnStore

SpecSession == InitSession /\ [][NextSession]_vars

\* C10: get_valid(id, now) returns a record only when one is stored under id
\* with expires_at > now, and then that record, leaving the map as it was; a
\* stored record with expires_at <= now is deleted (the others are kept) and
\* none is returned; with no record stored none is returned and the map is
\* unchanged.
C10_GetValidLazyExpiry ==
    ret.op = "get_valid" =>
        LET b == ret.before
            sid == ret.sid
        IN /\ IsSome(ret.result)
                => (sid \in DOMAIN b /\ b[sid].expires_at > ret.now)
           /\ (sid \in DOMAIN b /\ b[sid].expires_at > ret.now)
                => (ret.result = Some(b[sid]) /\ sessions = b)
           /\ (sid \in DOMAIN b /\ b[sid].expires_at <= ret.now)
                => /\ ret.result = None
                   /\ DOMAIN sessions = (DOMAIN b) \ {sid}
                   /\ \A k \in DOMAIN sessions : sessions[k] = b[k]
           /\ sid \notin DOMAIN b => (ret.result = None /\ sessions = b)

\* C10 witness: get_valid was called at the very second a stored record
\* expires, returned none, and the record is gone while another one stays.
C10_Witness ==
    /\ ret.op = "get_valid"
    /\ ret.sid \in DOMAIN ret.before
    /\ ret.before[ret.sid].expires_at = ret.now
    /\ ret.result = None
    /\ ret.sid \notin DOMAIN sessions
    /\ sessions # EmptyMap

CreateOrUpdateReturned == ret.op = "create_or_update"

\* C11: create_or_update given the id of a record that has expired
\* (expires_at <= now) does not reuse it: the id it returns is a new one, no
\* key of the map before, its record holds the granted scope alone, and the
\* expired record is gone; the same when the id's record was already removed.
C11_ExpiredIdNotReused ==
    (/\ CreateOrUpdateReturned
     /\ IsSome(ret.current_sid)
     /\ Unwrap(ret.current_sid) \in DOMAIN ret.before
            => ret.before[Unwrap(ret.current_sid)].expires_at <= ret.now)
        => /\ ret.session_id # Unwrap(ret.current_sid)
           /\ ret.session_id \notin DOMAIN ret.before
           /\ ret.session_id = minted
           /\ ret.session = SessionData({ret.scope}, ret.now + SessionTtl)
           /\ sessions[ret.session_id] = ret.session
           /\ Unwrap(ret.current_sid) \notin DOMAIN sessions

\* C11 witness: the id of an expired record holding "a", still in the map, is
\* given with the scope "a/b"; the new record holds "a/b" alone.
C11_Witness ==
    /\ CreateOrUpdateReturned
    /\ IsSome(ret.current_sid)
    /\ Unwrap(ret.current_sid) \in DOMAIN ret.before
    /\ ret.before[Unwrap(ret.current_sid)].expires_at <= ret.now
    /\ ret.before[Unwrap(ret.current_sid)].scopes = {<<"a">>}
    /\ ret.scope = <<"a", "/", "b">>
    /\ ret.session.scopes = {<<"a", "/", "b">>}
    /\ ret.session_id # Unwrap(ret.current_sid)

\* C12: create_or_update given the id of a record with expires_at > now
\* returns that id; the record's scopes are the previous ones and the granted
\* one, its expires_at is now + ttl_seconds, and the records of the other
\* unexpired ids are as before.
C12_LiveIdReusedAndExtended ==
    (/\ CreateOrUpdateReturned
     /\ IsSome(ret.current_sid)
     /\ Unwrap(ret.current_sid) \in DOMAIN ret.before
     /\ ret.before[Unwrap(ret.current_sid)].expires_at > ret.now)
        => LET sid == Unwrap(ret.current_sid) IN
           /\ ret.session_id = sid
           /\ ret.session.scopes = ret.before[sid].scopes \cup {ret.scope}
           /\ ret.session.expires_at = ret.now + SessionTtl
           /\ sessions[sid] = ret.session
           /\ \A k \in DOMAIN ret.before \ {sid} :
                 ret.before[k].expires_at > ret.now
                    => (k \in DOMAIN sessions /\ sessions[k] = ret.before[k])

\* C12 witness: a live session holding "a" is granted "a/b" while another
\* live session is stored.
C12_Witness ==
    /\ CreateOrUpdateReturned
    /\ IsSome(ret.current_sid)
    /\ Unwrap(ret.current_sid) \in DOMAIN ret.before
    /\ ret.before[Unwrap(ret.current_sid)].expires_at > ret.now
    /\ ret.before[Unwrap(ret.current_sid)].scopes = {<<"a">>}
    /\ ret.scope = <<"a", "/", "b">>
    /\ ret.session.scopes = {<<"a">>, <<"a", "/", "b">>}
    /\ \E k \in DOMAIN ret.before \ {Unwrap(ret.current_sid)} :
          ret.before[k].expires_at > ret.now

\* The map is the one before the call without the record of sid.
RemovedOnly(sid) ==
    /\ DOMAIN sessions = (DOMAIN ret.before) \ {sid}
    /\ \A k \in DOMAIN sessions : sessions[k] = ret.before[k]

\* C14: remove(id), and logout_handler with the cookie id, delete the record
\* of id, expired or not, and leave every other record as it was; an id whose
\* record is gone never has a record again; and get_valid or me_handler with
\* such an id report no session (authenticated = false), which authorizes no
\* scope.
C14_RemovedMeansNoSession ==
    /\ [](ret.op = "remove" => RemovedOnly(ret.sid))
    /\ []((ret.op = "logout" /\ IsSome(ret.jar))
             => (RemovedOnly(Unwrap(ret.jar)) /\ ret.response.ok))
    /\ [][\A sid \in 1..minted :
             sid \notin DOMAIN sessions => sid \notin DOMAIN sessions']_vars
    /\ []((ret.op = "get_valid" /\ ret.sid \notin DOMAIN ret.before)
             => /\ ret.result = None
                /\ \A scope \in StoreScopes :
                      ~is_scope_authorized(ret.result, scope))
    /\ []((ret.op = "me" /\ IsSome(ret.jar)
              /\ Unwrap(ret.jar) \notin DOMAIN ret.before)
             => /\ ret.response.ok
                /\ ~ret.response.val.authenticated
                /\ ret.response.val.scopes = {})

\* C14 witness: logout_handler ran with the id of an unexpired record and
\* that record is gone while another one stays.
C14_Witness ==
    /\ ret.op = "logout"
    /\ IsSome(ret.jar)
    /\ Unwrap(ret.jar) \in DOMAIN ret.before
    /\ ret.before[Unwrap(ret.jar)].expires_at > now
    /\ Unwrap(ret.jar) \notin DOMAIN sessions
    /\ sessions # EmptyMap

\* C30: the id create_or_update returns is the id it was given only if a
\* record of that id was in the map and unexpired before the call; otherwise
\* it is an id generated by the call, which no record and no client had
\* before.  An id a client chose that is not in the store is never taken as
\* a session id.
C30_NoSessionFixation ==
    CreateOrUpdateReturned =>
        /\ Some(ret.session_id) = ret.current_sid
              => /\ ret.session_id \in DOMAIN ret.before
                 /\ ret.before[ret.session_id].expires_at > ret.now
        /\ Some(ret.session_id) # ret.current_sid
              => /\ ret.session_id = minted
                 /\ ret.session_id # ForgedSid
                 /\ ret.session_id \notin DOMAIN ret.before
        /\ (ret.current_sid # None
            /\ Unwrap(ret.current_sid) \notin DOMAIN ret.before)
              => /\ Some(ret.session_id) # ret.current_sid
                 /\ Unwrap(ret.current_sid) \notin DOMAIN sessions

\* C30 witness: a login carries an id the server never set while the store
\* holds a session; it is answered with a new id and the forged id has no
\* record.
C30_Witness ==
    /\ CreateOrUpdateReturned
    /\ ret.current_sid = Some(ForgedSid)
    /\ DOMAIN ret.before # {}
    /\ ret.session_id = minted
    /\ ret.session_id \notin DOMAIN ret.before
    /\ ForgedSid \notin DOMAIN sessions

----------------------------------------------------------------------------
(* SpecLimiter: the operations of LoginRateLimiter, called one after        *)
(* another for two keys while the clock advances.  As with the store, the   *)
(* time a caller passes is the clock's or an earlier reading of it.         *)

\* config.rs: login_max_failures (5 by default) and login_block_seconds (60
\* by default), scaled to the clock
LoginMaxFailures == 2
LoginBlockSeconds == 2

\* The address of the one client.
ClientIp == <<"1", "0", ".", "0", ".", "0", ".", "1">>

LimiterKeys == {ClientIp \o <<":">> \o scope : scope \in StoreScopes}

BlockedUntilCall(key, t) ==
    LET r == blocked_until(attempts, key, t) IN
    /\ ret = NoCall
    /\ attempts' = r.attempts
    /\ ret' = [op |-> "blocked_until", key |-> key, now |-> t,
               before |-> attempts, result |-> r.result]
    /\ UNCHANGED <<raw, inflight, fs, sessions, minted, now>>

RecordFailureCall(key, t) ==
    LET r == record_failure(attempts, key, t, LoginMaxFailures,
                            LoginBlockSeconds) IN
    /\ ret = NoCall
    /\ attempts' = r.attempts
    /\ ret' = [op |-> "record_failure", key |-> key, now |-> t,
               before |-> attempts, result |-> r.result]
    /\ UNCHANGED <<raw, inflight, fs, sessions, minted, now>>

RecordSuccessCall(key) ==
    /\ ret = NoCall
    /\ attempts' = record_success(attempts, key)
    /\ ret' = [op |-> "record_success", key |-> key, before |-> attempts]
    /\ UNCHANGED <<raw, inflight, fs, sessions, minted, now>>

NextLimiter ==
    \/ Tick
    \/ \E key \in LimiterKeys, t \in 0..now : BlockedUntilCall(key, t)
    \/ \E key \in LimiterKeys, t \in 0..now : RecordFailureCall(key, t)
    \/ \E key \in LimiterKeys : RecordSuccessCall(key)
    \/ ReturnStore

SpecLimiter == InitSession /\ [][NextLimiter]_vars

RecordFailureReturned == ret.op = "record_failure"
\* The entry of the call's key before the call, and after it.
EntryBefore ==
    IF ret.key \in DOMAIN ret.before THEN Some(ret.before[ret.key]) ELSE None
\* Every other key has the entry it had, or none as before.
OtherKeysUnchanged ==
    /\ DOMAIN attempts \ {ret.key} = DOMAIN ret.before \ {ret.key}
    /\ \A k \in DOMAIN attempts \ {ret.key} : attempts[k] = ret.before[k]
\* The key was blocked at the time the call was given.
WasBlocked ==
    /\ IsSome(EntryBefore)
    /\ IsSome(Unwrap(EntryBefore).blocked_until)
    /\ Unwrap(Unwrap(EntryBefore).blocked_until) > ret.now
\* How many failures in a row the key had before the call: those counted in
\* its entry, none when it has no entry or its block has passed.
FailuresBefore ==
    IF ~IsSome(EntryBefore) \/ IsSome(Unwrap(EntryBefore).blocked_until) THEN 0
    ELSE Unwrap(EntryBefore).failures

\* C15: counting from a key with no entry, the first max_failures - 1 calls
\* of record_failure in a row return none, each counting one failure more,
\* and the max_failures-th returns the deadline now + block_seconds, stores
\* it and resets the count to zero.  (The entry counts the calls in a row: a
\* key with no entry has none, and the k-th call finds k - 1.)
C15_BlockOnMaxFailures ==
    /\ \A k \in DOMAIN attempts :
          /\ attempts[k].failures < LoginMaxFailures
          /\ IsSome(attempts[k].blocked_until) => attempts[k].failures = 0
    /\ (RecordFailureReturned /\ ~WasBlocked) =>
          /\ ret.key \in DOMAIN attempts
          /\ FailuresBefore + 1 < LoginMaxFailures
                => /\ ret.result = None
                   /\ attempts[ret.key]
                         = LoginAttempt(FailuresBefore + 1, None)
          /\ FailuresBefore + 1 = LoginMaxFailures
                => /\ ret.result = Some(ret.now + LoginBlockSeconds)
                   /\ attempts[ret.key]
                         = LoginAttempt(0, Some(ret.now + LoginBlockSeconds))
          /\ OtherKeysUnchanged

\* C15 witness: the call is the max_failures-th in a row since the key had no
\* block, and it returns the deadline.
C15_Witness ==
    /\ RecordFailureReturned
    /\ IsSome(EntryBefore)
    /\ Unwrap(EntryBefore) = LoginAttempt(LoginMaxFailures - 1, None)
    /\ ret.result = Some(ret.now + LoginBlockSeconds)
    /\ attempts[ret.key].failures = 0

\* C16: record_failure for a key whose deadline is in the future
\* (blocked_until > now) returns that deadline and leaves the count, the
\* deadline and every other entry as they were.
C16_FailureDuringBlock ==
    (RecordFailureReturned /\ WasBlocked) =>
        /\ ret.result = Unwrap(EntryBefore).blocked_until
        /\ attempts = ret.before

\* C16 witness: a failure one second into a block of two.
C16_Witness ==
    /\ RecordFailureReturned
    /\ WasBlocked
    /\ ret.now > 0
    /\ Unwrap(Unwrap(EntryBefore).blocked_until) < ret.now + LoginBlockSeconds
    /\ ret.result = Unwrap(EntryBefore).blocked_until

\* C17: blocked_until returns the deadline of a key whose deadline is in the
\* future and changes nothing; for a key whose deadline has passed it returns
\* none and leaves the entry with no block and a count of zero (from which
\* C15 gives the full allowance again); for a key with no entry it returns
\* none and creates no entry.
C17_BlockedUntilClearsPassedBlock ==
    ret.op = "blocked_until" =>
        /\ WasBlocked
              => /\ ret.result = Unwrap(EntryBefore).blocked_until
                 /\ attempts = ret.before
        /\ (/\ IsSome(EntryBefore)
            /\ IsSome(Unwrap(EntryBefore).blocked_until)
            /\ Unwrap(Unwrap(EntryBefore).blocked_until) <= ret.now)
              => /\ ret.result = None
                 /\ ret.key \in DOMAIN attempts
                 /\ attempts[ret.key] = LoginAttempt(0, None)
                 /\ OtherKeysUnchanged
        /\ ~IsSome(EntryBefore)
              => /\ ret.result = None
                 /\ attempts = ret.before

\* C17 witness: blocked_until is asked at the very second of the deadline and
\* clears the block.
C17_Witness ==
    /\ ret.op = "blocked_until"
    /\ IsSome(EntryBefore)
    /\ Unwrap(EntryBefore).blocked_until = Some(ret.now)
    /\ ret.result = None
    /\ attempts[ret.key] = LoginAttempt(0, None)

\* C18: record_success deletes the entry of the key, count and block alike,
\* and leaves the entries of the other keys as they were; a key with no entry
\* then has max_failures - 1 failures that return none before it (C15).
C18_SuccessForgetsKey ==
    /\ ret.op = "record_success"
          => /\ ret.key \notin DOMAIN attempts
             /\ OtherKeysUnchanged
    /\ (RecordFailureReturned /\ ~IsSome(EntryBefore)
           /\ 1 < LoginMaxFailures)
          => /\ ret.result = None
             /\ attempts[ret.key] = LoginAttempt(1, None)

\* C18 witness: record_success for a key that is blocked, while the other key
\* has an entry.
C18_Witness ==
    /\ ret.op = "record_success"
    /\ IsSome(EntryBefore)
    /\ IsSome(Unwrap(EntryBefore).blocked_until)
    /\ ret.key \notin DOMAIN attempts
    /\ attempts # EmptyMap

----------------------------------------------------------------------------
(* Spec: the HTTP handlers, serving one request after another while the     *)
(* tree below the root changes and the clock advances.                      *)

\* How many sessions the requests of Spec may mint.
MaxLogins == 1

\* The password every .password holds.
GoodPassword == Trim(PasswordFileData)

\* What the environment puts below the root: the chain a, a/b of directories
\* or regular files, a .password in each of the two, and a symlink a/b to
\* a/.password.
MarkerLink == Symlink(RootDir \o <<NameA, PASSWORD_MARKER_FILE>>)
ServedEntries(p) ==
    IF p \in ChainPaths
    THEN PlainEntries(p) \cup (IF p = DirChain THEN {MarkerLink} ELSE {})
    ELSE IF p[Len(p)] = PASSWORD_MARKER_FILE /\ Len(p) > 1 THEN PlainEntries(p)
    ELSE {}

\* The paths requests name: none (the root), the chain, and the markers in a.
RequestPaths ==
    {None} \cup {Some(Join(p, "/")) :
                    p \in ChainPaths \cup {<<NameA, PASSWORD_MARKER_FILE>>,
                                            <<NameA, PRIVATE_MARKER_FILE>>}}
Cookies == {None} \cup {Some(v) : v \in CookieValues}
RangeHeaders ==
    {None, Some(<<"b", "y", "t", "e", "s", "=", "1", "-", "2">>),
     Some(<<"b", "y", "t", "e", "s", "=", "9", "-">>),
     Some(<<"b", "y", "t", "e", "s", "=", "1", "-", "U+4F60">>)}

\* The orders read_dir may yield the directory a listing request names in.
ListingOrders(query_path) ==
    Let(normalize_relative_path(query_path), LAMBDA relative_path :
    IF ~relative_path.ok THEN {<<>>}
    ELSE Let(resolve_existing_path(RootDir, relative_path.val), LAMBDA resolved :
         IF ~resolved.ok THEN {<<>>}
         ELSE IF metadata(resolved.val).entry.kind # "dir" THEN {<<>>}
         ELSE Orders(read_dir(resolved.val))))

Init ==
    /\ raw = None
    /\ fs = EmptyFs
    /\ StoresEmpty
    /\ inflight = NoLogins
    /\ ret = NoCall

ListRequest(jar, query_path, order) ==
    LET r == list_handler(sessions, jar, query_path, now, order) IN
    /\ ret = NoCall
    /\ sessions' = r.sessions
    /\ ret' = [op |-> "list", jar |-> jar, path |-> query_path,
               before |-> sessions, response |-> r.response]
    /\ UNCHANGED <<raw, inflight, fs, minted, attempts, now>>

FileRequest(jar, range_header, query_path) ==
    LET r == file_handler(sessions, jar, range_header, query_path, now) IN
    /\ ret = NoCall
    /\ sessions' = r.sessions
    /\ ret' = [op |-> "file", jar |-> jar, path |-> query_path,
               range |-> range_header, before |-> sessions,
               response |-> r.response]
    /\ UNCHANGED <<raw, inflight, fs, minted, attempts, now>>

DirectFileRequest(jar, range_header, raw_path) ==
    LET r == direct_file_handler(sessions, jar, range_header, raw_path, now) IN
    /\ ret = NoCall
    /\ sessions' = r.sessions
    /\ ret' = [op |-> "direct", jar |-> jar, path |-> Some(raw_path),
               range |-> range_header, before |-> sessions,
               response |-> r.response]
    /\ UNCHANGED <<raw, inflight, fs, minted, attempts, now>>

LoginRequest(jar, payload) ==
    LET r == login_handler(sessions, attempts, jar, payload, ClientIp, now,
                           minted + 1, SessionTtl, LoginMaxFailures,
                           LoginBlockSeconds) IN
    /\ ret = NoCall
    /\ r.minted => minted < MaxLogins
    /\ sessions' = r.sessions
    /\ attempts' = r.attempts
    /\ minted' = IF r.minted THEN minted + 1 ELSE minted
    /\ ret' = [op |-> "login", jar |-> jar, path |-> Some(payload.path),
               password |-> payload.password, before |-> sessions,
               response |-> r.response, set_cookie |-> r.set_cookie]
    /\ UNCHANGED <<raw, inflight, fs, now>>

Next ==
    \/ \E p \in EntryPaths : \E e \in ServedEntries(p) : FsPut(p, e)
    \/ \E p \in EntryPaths : FsRemove(p)
    \/ Tick
    \/ \E jar \in Cookies, path \in RequestPaths :
          \E order \in ListingOrders(path) : ListRequest(jar, path, order)
    \/ \E jar \in Cookies, range \in RangeHeaders, path \in RequestPaths :
          FileRequest(jar, range, path)
    \/ \E jar \in Cookies, path \in RequestPaths \ {None} :
          DirectFileRequest(jar, None, Unwrap(path))
    \/ \E jar \in Cookies, path \in RequestPaths \ {None} :
          LoginRequest(jar, [path |-> Unwrap(path), password |-> GoodPassword])
    \/ \E jar \in Cookies : LogoutRequest(jar)
    \/ \E jar \in Cookies : MeRequest(jar)
    \/ Return

Spec == Init /\ [][Next]_vars

----------------------------------------------------------------------------
(* What a request of Spec asks for, read off the filesystem: the handlers'  *)
(* own path resolution and anchor walk are not used here.  In Spec a marker *)
(* is a regular file or absent and the only symlink is at a/b.              *)

ListReturned == ret.op = "list"
FileReturned == ret.op \in {"file", "direct"}
LoginReturned == ret.op = "login"

\* The components of the path the request in ret names.
RequestComponents ==
    Let(normalize_relative_path(ret.path), LAMBDA n :
        IF n.ok THEN Components(n.val) ELSE <<>>)
RequestTarget == RootDir \o RequestComponents

\* Every directory on the way to the target is a real directory.
ReachedPlainly(abs) ==
    \A k \in (Len(RootDir) + 1)..(Len(abs) - 1) :
        EntryAt(SubSeq(abs, 1, k)).kind = "dir"

\* The request of list names a directory; that of file a regular file that
\* is not a marker.
ListsDirectory ==
    /\ ListReturned
    /\ ReachedPlainly(RequestTarget)
    /\ EntryAt(RequestTarget).kind = "dir"
ReadsFile ==
    /\ FileReturned
    /\ RequestComponents # <<>>
    /\ ReachedPlainly(RequestTarget)
    /\ EntryAt(RequestTarget).kind = "file"
    /\ ~is_private_marker_name(RequestTarget[Len(RequestTarget)])

\* The directory the nearest anchor is looked for from.
AnchorStart ==
    IF ListReturned THEN RequestTarget
    ELSE SubSeq(RequestTarget, 1, Len(RequestTarget) - 1)
Anchored == Carriers(AnchorStart) # {}
AnchorScope == ScopeOf(Nearest(AnchorStart))

\* The request carried the id of a record that had not expired.
CarriesLiveSession ==
    /\ IsSome(ret.jar)
    /\ Unwrap(ret.jar) \in DOMAIN ret.before
    /\ ret.before[Unwrap(ret.jar)].expires_at > now
HeldScopes == ret.before[Unwrap(ret.jar)].scopes
SessionHolds(scope) == CarriesLiveSession /\ scope \in HeldScopes

\* C1: list_handler and the file handlers answer with content for a target
\* (a directory for list, a regular file for file) whose nearest anchor has
\* scope s only if the request carries the id of a session record with
\* expires_at > now that contains s; in every other case with an anchor they
\* answer AUTH_REQUIRED, which carries no content.
C1_ContentOnlyWithScope ==
    ((ListsDirectory \/ ReadsFile) /\ Anchored) =>
        /\ ret.response.ok => SessionHolds(AnchorScope)
        /\ ~SessionHolds(AnchorScope) => ret.response = auth_required

\* C1 witness: a file below a/.password is asked for with the id of a session
\* that holds scope "a" but has expired, and the answer is AUTH_REQUIRED.
C1_Witness ==
    /\ ReadsFile /\ Anchored
    /\ AnchorScope = <<"a">>
    /\ IsSome(ret.jar) /\ Unwrap(ret.jar) \in DOMAIN ret.before
    /\ <<"a">> \in HeldScopes
    /\ HeldScopes = {<<"a">>}
    /\ ret.before[Unwrap(ret.jar)].expires_at <= now
    /\ ret.response = auth_required

\* C2: scope matching is equality.  A live session that holds only scope p
\* is refused for a target whose nearest anchor is another scope q, be q
\* below p (q = p/x with its own .password) or above it; when the nearest
\* .password of the target is that of p itself (the target is at or below p
\* with no nearer .password) the request is authorized and answered (a file
\* request whose Range header cannot be satisfied with INVALID_RANGE).
C2_ScopeMatchIsEquality ==
    ((ListsDirectory \/ ReadsFile) /\ Anchored /\ CarriesLiveSession) =>
        \A p \in HeldScopes :
            HeldScopes = {p} =>
                /\ p # AnchorScope => ret.response = auth_required
                /\ p = AnchorScope =>
                       \/ ret.response.ok
                       \/ /\ FileReturned
                          /\ ~ret.response.ok
                          /\ ret.response.code = "INVALID_RANGE"

\* C2 witness: the session holds only "a", the directory a/b has its own
\* .password, and listing a/b is refused.
C2_Witness ==
    /\ ListsDirectory /\ Anchored /\ CarriesLiveSession
    /\ HeldScopes = {<<"a">>}
    /\ AnchorScope = <<"a", "/", "b">>
    /\ ret.response = auth_required

\* A non-empty contiguous part of data.
IsPartOf(body, data) ==
    /\ body # <<>>
    /\ \E i \in 1..Len(data) : \E j \in i..Len(data) : body = SubSeq(data, i, j)

\* The request in ret names a path whose last segment is a marker name.
NamesMarker ==
    /\ ListReturned \/ FileReturned \/ LoginReturned
    /\ Let(normalize_relative_path(ret.path), LAMBDA n :
           /\ n.ok
           /\ n.val # <<>>
           /\ Let(Split(n.val, "/"), LAMBDA segs :
                  segs[Len(segs)] \in {PASSWORD_MARKER_FILE,
                                       PRIVATE_MARKER_FILE}))

\* C8: a list, file, direct or login request whose normalized path ends in
\* .password or .private is answered NOT_FOUND "File not found." whether or
\* not the marker exists and whatever session it carries, leaving the stores
\* as they were and setting no cookie; and no file response carries bytes of
\* a marker file.
C8_MarkerPathNotFound ==
    /\ NamesMarker =>
          /\ ret.response = not_found("File not found.")
          /\ sessions = ret.before
          /\ LoginReturned => ret.set_cookie = None
    /\ (FileReturned /\ ret.response.ok) =>
          \A m \in MarkerPaths :
              fs[m].kind = "file" => ~IsPartOf(ret.response.val.body, fs[m].data)

\* C8 witness: a/.password exists, the request for it carries a live session
\* holding scope "a", and the answer is NOT_FOUND.
C8_Witness ==
    /\ FileReturned
    /\ ret.path = Some(Join(<<NameA, PASSWORD_MARKER_FILE>>, "/"))
    /\ fs[<<NameA, PASSWORD_MARKER_FILE>>].kind = "file"
    /\ SessionHolds(<<"a">>)
    /\ ret.response = not_found("File not found.")

\* The file a file request reads and the window its Range header names in it.
RequestedData == EntryAt(RequestTarget).data
RangeAsked == IF IsSome(ret.range) THEN to_str(Unwrap(ret.range)) ELSE None
FileAuthorized == ReadsFile /\ (Anchored => SessionHolds(AnchorScope))

C24_WitnessRejected ==
    /\ FileAuthorized
    /\ ret.range = Some(<<"b", "y", "t", "e", "s", "=", "9", "-">>)
    /\ ret.response = invalid_range("Range start is beyond end of file.")

----------------------------------------------------------------------------
(* SpecLogin: login requests served concurrently.  login_handler gives up   *)
(* its thread at every await; what it does between two awaits that take a   *)
(* lock is one step here, and the steps of the requests in flight           *)
(* interleave.  The tree is fixed: the directory a with a .password file.   *)

MaxInFlight == 2
MaxLoginRequests == 3
\* config.rs: session_ttl_seconds of this configuration, scaled to the clock
LongSessionTtl == 2
BadPassword == <<"x">>

LoginTree ==
    [p \in EntryPaths |->
        IF p = <<NameA>> THEN Dir
        ELSE IF p = <<NameA, PASSWORD_MARKER_FILE>> THEN FileFor(p)
        ELSE NoEntry]

\* login_handler up to its first use of the limiter: the anchor of the path,
\* the clock's reading and the limiter key, or the error it answers.
login_begin(payload, client_ip, t) ==
    Try(normalize_relative_path(Some(payload.path)), LAMBDA relative_path :
    Try(ensure_not_marker_path(relative_path), LAMBDA not_marker :
    Try(resolve_existing_path(RootDir, relative_path), LAMBDA resolved :
    Try(metadata_or(resolved, "path"), LAMBDA meta :
    Try(find_private_anchor(RootDir, resolved, meta.kind = "dir"),
        LAMBDA found :
    IF ~IsSome(found) THEN bad_request("The target path is public.")
    ELSE Ok([anchor |-> Unwrap(found), now |-> t,
             limiter_key |-> client_ip \o <<":">> \o Unwrap(found).scope_rel]))))))

\* The answer when the limiter returns the deadline until.
TooManyFailures(until, t) == rate_limited(RetryMessage(saturating_sub(until, t)))

Slots == 1..MaxInFlight
IdleSlot == [pc |-> "idle"]
\* A request that has been answered, until its connection is done with.
Answered(req, response, set_cookie) ==
    [pc |-> "done", jar |-> req.jar, password |-> req.password,
     now |-> req.now, limiter_key |-> req.limiter_key,
     response |-> response, set_cookie |-> set_cookie]

InitLogin ==
    /\ raw = None
    /\ fs = LoginTree
    /\ sessions = EmptyMap
    /\ minted = 0
    /\ attempts = EmptyMap
    /\ now = 0
    /\ inflight = [slots |-> [i \in Slots |-> IdleSlot], started |-> 0]
    /\ ret = NoCall

SetSlot(i, req) == [inflight EXCEPT !.slots[i] = req]

\* handlers.rs 348-363: a request arrives in the lowest free slot.
LoginBegin(i, jar, payload) ==
    /\ inflight.slots[i].pc = "idle"
    /\ \A j \in Slots : j < i => inflight.slots[j].pc # "idle"
    /\ inflight.started < MaxLoginRequests
    /\ \E begun \in {login_begin(payload, ClientIp, now)} :
          LET req == [jar |-> jar, password |-> payload.password,
                      now |-> now,
                      limiter_key |-> IF begun.ok THEN begun.val.limiter_key
                                      ELSE <<>>]
          IN inflight' =
                [slots |-> [inflight.slots EXCEPT ![i] =
                              IF begun.ok
                              THEN [pc |-> "blocked_until", jar |-> jar,
                                    password |-> payload.password,
                                    anchor |-> begun.val.anchor,
                                    now |-> begun.val.now,
                                    limiter_key |-> begun.val.limiter_key]
                              ELSE Answered(req, begun, None)],
                 started |-> inflight.started + 1]
    /\ UNCHANGED <<raw, fs, sessions, minted, attempts, now, ret>>

\* handlers.rs 365-370
LoginBlockedUntil(i) ==
    LET req == inflight.slots[i]
        blocked == blocked_until(attempts, req.limiter_key, req.now)
    IN /\ req.pc = "blocked_until"
       /\ attempts' = blocked.attempts
       /\ inflight' =
            SetSlot(i, IF IsSome(blocked.result)
                       THEN Answered(req, TooManyFailures(Unwrap(blocked.result),
                                                          req.now), None)
                       ELSE [req EXCEPT !.pc = "password"])
       /\ UNCHANGED <<raw, fs, sessions, minted, now, ret>>

\* handlers.rs 372-380
LoginRecordFailure(i) ==
    LET req == inflight.slots[i]
        failure == record_failure(attempts, req.limiter_key, req.now,
                                  LoginMaxFailures, LoginBlockSeconds)
    IN /\ req.pc = "password"
       /\ req.password # req.anchor.password
       /\ attempts' = failure.attempts
       /\ inflight' =
            SetSlot(i, Answered(req,
                          IF IsSome(failure.result)
                          THEN TooManyFailures(Unwrap(failure.result), req.now)
                          ELSE unauthorized("Invalid password."),
                          None))
       /\ UNCHANGED <<raw, fs, sessions, minted, now, ret>>

\* handlers.rs 372, 382
LoginRecordSuccess(i) ==
    LET req == inflight.slots[i] IN
    /\ req.pc = "password"
    /\ req.password = req.anchor.password
    /\ attempts' = record_success(attempts, req.limiter_key)
    /\ inflight' = SetSlot(i, [req EXCEPT !.pc = "create_or_update"])
    /\ UNCHANGED <<raw, fs, sessions, minted, now, ret>>

\* handlers.rs 384-416
LoginCreateOrUpdate(i) ==
    LET req == inflight.slots[i]
        created == create_or_update(sessions, req.jar, req.anchor.scope_rel,
                                    LongSessionTtl, req.now, minted + 1)
    IN /\ req.pc = "create_or_update"
       /\ created.minted => minted < MaxIds
       /\ sessions' = created.sessions
       /\ minted' = IF created.minted THEN minted + 1 ELSE minted
       /\ inflight' =
            SetSlot(i, Answered(req,
                          Ok([ok |-> TRUE, scope |-> req.anchor.scope_rel,
                              expires_at |->
                                  unix_to_rfc3339(created.session.expires_at)]),
                          Some(created.session_id)))
       /\ UNCHANGED <<raw, fs, attempts, now, ret>>

\* The answer is sent and the slot is free again.
LoginEnd(i) ==
    /\ inflight.slots[i].pc = "done"
    /\ inflight' = SetSlot(i, IdleSlot)
    /\ UNCHANGED <<raw, fs, sessions, minted, attempts, now, ret>>

NextLogin ==
    \/ Tick
    \/ \E i \in Slots, jar \in Cookies, password \in {GoodPassword, BadPassword} :
          LoginBegin(i, jar, [path |-> NameA, password |-> password])
    \/ \E i \in Slots : LoginBlockedUntil(i)
    \/ \E i \in Slots : LoginRecordFailure(i)
    \/ \E i \in Slots : LoginRecordSuccess(i)
    \/ \E i \in Slots : LoginCreateOrUpdate(i)
    \/ \E i \in Slots : LoginEnd(i)

SpecLogin == InitLogin /\ [][NextLogin]_vars

\* C13: for every session id, the stored expires_at never decreases while the
\* record exists: no step of a login request, whichever others run beside
\* it, leaves a record that stays in the map with a smaller expires_at.
C13_ExpiresAtNeverDecreases ==
    [][\A sid \in DOMAIN sessions :
          sid \in DOMAIN sessions'
             => sessions'[sid].expires_at >= sessions[sid].expires_at]_vars

\* The key has a block whose deadline the clock has not reached.
BlockedNow(key) ==
    /\ key \in DOMAIN attempts
    /\ IsSome(attempts[key].blocked_until)
    /\ Unwrap(attempts[key].blocked_until) > now

\* The request in the slot is answered by this step.
AnsweredInStep(i) ==
    /\ inflight.slots[i].pc \notin {"idle", "done"}
    /\ inflight'.slots[i].pc = "done"

\* C19: while the key of a login request has a block deadline in the future,
\* no step of any login request for that key clears or changes the block,
\* creates or extends a session, or answers anything but RATE_LIMITED, the
\* correct password included, however the requests for the key interleave.
C19_BlockGatesLogin ==
    [][\A i \in Slots :
          (/\ inflight.slots[i].pc \notin {"idle", "done"}
           /\ inflight'.slots[i] # inflight.slots[i]
           /\ BlockedNow(inflight.slots[i].limiter_key))
             => /\ inflight.slots[i].limiter_key \in DOMAIN attempts'
                /\ attempts'[inflight.slots[i].limiter_key]
                      = attempts[inflight.slots[i].limiter_key]
                /\ sessions' = sessions
                /\ AnsweredInStep(i)
                /\ inflight'.slots[i].response.code = "RATE_LIMITED"]_vars

----------------------------------------------------------------------------
(* SpecRange: parse_range_header on every short header value over the       *)
(* characters it tells apart, with and without the "bytes=" prefix, and on   *)
(* every small file size.                                                    *)

MaxRangeLen == 3
MaxFileSize == 3

RangeChars == {"0", "1", "3", "-", ",", "+", " "}
RangeTails ==
    UNION {[1..n -> RangeChars] : n \in 0..MaxRangeLen}
BytesPrefix == <<"b", "y", "t", "e", "s", "=">>
RangeHeaderValues == RangeTails \cup {BytesPrefix \o tail : tail \in RangeTails}

InitRange ==
    /\ raw \in {[header |-> h, file_size |-> n] :
                   h \in RangeHeaderValues, n \in 0..MaxFileSize}
    /\ fs = EmptyFs
    /\ StoresEmpty
    /\ inflight = NoLogins
    /\ ret = NoCall

ParseRangeCall ==
    /\ ret = NoCall
    /\ ret' = [op |-> "parse_range_header",
               result |-> parse_range_header(raw.header, raw.file_size)]
    /\ UNCHANGED <<raw, inflight, fs, storeVars>>

NextRange == ParseRangeCall

SpecRange == InitRange /\ [][NextRange]_vars

\* C20: whenever parse_range_header succeeds, whatever the header value and
\* the file size, its result has 0 <= start <= end < file_size, so that its
\* length end - start + 1 is between 1 and file_size.
C20_RangeWithinFile ==
    (ret.op = "parse_range_header" /\ ret.result.ok) =>
        /\ 0 <= ret.result.val.start
        /\ ret.result.val.start <= ret.result.val.end
        /\ ret.result.val.end < raw.file_size
        /\ 1 <= RangeLen(ret.result.val)
        /\ RangeLen(ret.result.val) <= raw.file_size

\* C20 witness: "bytes=1-3" on a file of three bytes gives the window 1..2.
C20_Witness ==
    /\ ret.op = "parse_range_header"
    /\ raw = [header |-> BytesPrefix \o <<"1", "-", "3">>, file_size |-> 3]
    /\ ret.result = Ok(ByteRange(1, 2))

\* Decimal text of a number, as a client writes it in a Range header.
DecimalDigits == <<"0", "1", "2", "3", "4", "5", "6", "7", "8", "9">>

RECURSIVE Decimal(_)
Decimal(n) ==
    IF n < 10 THEN <<DecimalDigits[n + 1]>>
    ELSE Decimal(n \div 10) \o <<DecimalDigits[(n % 10) + 1]>>

\* The numbers whose decimal text fits in a header tail next to one "-".
RangeNumbers == 0..((10 ^ (MaxRangeLen - 1)) - 1)

RangeRejected ==
    /\ ~ret.result.ok
    /\ ret.result.code = "INVALID_RANGE"

\* C21: on a file of size S > 0 the suffix form "bytes=-N" is rejected when
\* N = 0 and otherwise selects the last min(N, S) bytes: start = S - min(N, S)
\* and end = S - 1, so that N >= S selects the whole file.
C21_SuffixRange ==
    (ret.op = "parse_range_header" /\ raw.file_size > 0) =>
        \A n \in RangeNumbers :
            raw.header = BytesPrefix \o <<"-">> \o Decimal(n) =>
                IF n = 0 THEN RangeRejected
                ELSE ret.result =
                         Ok(ByteRange(raw.file_size -
                                          (IF n < raw.file_size THEN n
                                           ELSE raw.file_size),
                                      raw.file_size - 1))

\* C21 witness: "bytes=-13" on a file of three bytes selects the whole file.
C21_Witness ==
    /\ ret.op = "parse_range_header"
    /\ raw = [header |-> BytesPrefix \o <<"-", "1", "3">>, file_size |-> 3]
    /\ ret.result = Ok(ByteRange(0, 2))

\* C22: on a file of size S > 0 the forms "bytes=N-" and "bytes=N-M" are
\* rejected when N >= S; otherwise start = N and end = S - 1 when M is left
\* out, min(M, S - 1) when it is given, and the header is rejected when that
\* end is below N.
C22_StartEndRange ==
    (ret.op = "parse_range_header" /\ raw.file_size > 0) =>
        \A n \in RangeNumbers :
            LET head == BytesPrefix \o Decimal(n) \o <<"-">>
                last == raw.file_size - 1
            IN  /\ raw.header = head =>
                       IF n >= raw.file_size THEN RangeRejected
                       ELSE ret.result = Ok(ByteRange(n, last))
                /\ (/\ Len(raw.header) > Len(head)
                    /\ SubSeq(raw.header, 1, Len(head)) = head) =>
                       \A m \in RangeNumbers :
                           raw.header = head \o Decimal(m) =>
                               IF n >= raw.file_size THEN RangeRejected
                               ELSE IF (IF m < last THEN m ELSE last) < n
                                    THEN RangeRejected
                                    ELSE ret.result =
                                             Ok(ByteRange(n, IF m < last THEN m
                                                             ELSE last))

\* C22 witness: "bytes=1-" on a file of three bytes gives the window 1..2.
C22_Witness ==
    /\ ret.op = "parse_range_header"
    /\ raw = [header |-> BytesPrefix \o <<"1", "-">>, file_size |-> 3]
    /\ ret.result = Ok(ByteRange(1, 2))

\* The parts of a Range header as a client writes them: the text after
\* "bytes=", and in it the start part before the first "-" and the end part
\* after it.
HasBytesPrefix(header) ==
    /\ Len(header) >= Len(BytesPrefix)
    /\ SubSeq(header, 1, Len(BytesPrefix)) = BytesPrefix

RangeSpecOf(header) == SubSeq(header, Len(BytesPrefix) + 1, Len(header))

Dashes(s) == {i \in 1..Len(s) : s[i] = "-"}

FirstDash(s) == CHOOSE i \in Dashes(s) : \A j \in Dashes(s) : i <= j

StartPartOf(s) == SubSeq(s, 1, FirstDash(s) - 1)

EndPartOf(s) == SubSeq(s, FirstDash(s) + 1, Len(s))

\* 1*DIGIT, the byte positions of a Range header.
AllDigits(s) ==
    /\ s # <<>>
    /\ \A i \in 1..Len(s) : \E d \in 1..Len(DecimalDigits) : s[i] = DecimalDigits[d]

MalformedRangeSpec(s) ==
    \/ Dashes(s) = {}
    \/ /\ Dashes(s) # {}
       /\ \/ StartPartOf(s) # <<>> /\ ~AllDigits(StartPartOf(s))
          \/ EndPartOf(s) # <<>> /\ ~AllDigits(EndPartOf(s))
          \/ StartPartOf(s) = <<>> /\ EndPartOf(s) = <<>>

\* C23: parse_range_header answers with the invalid-range error, and with no
\* window, for every header on a file of size 0, every header that lacks the
\* "bytes=" prefix, every header that holds a comma, and every header whose
\* start part or end part is not a number or is otherwise malformed.
C23_MalformedRejected ==
    (/\ ret.op = "parse_range_header"
     /\ \/ raw.file_size = 0
        \/ ~HasBytesPrefix(Trim(raw.header))
        \/ Contains(raw.header, ",")
        \/ /\ HasBytesPrefix(Trim(raw.header))
           /\ MalformedRangeSpec(RangeSpecOf(Trim(raw.header))))
        => RangeRejected

----------------------------------------------------------------------------
(* content_disposition_inline on its own, over short file names and the    *)
(* two names of the tests in handlers.rs.                                   *)

MaxNameLen == 3

NameChars ==
    {"a", "Z", "1", ".", "~", "%", " ", "\t", "\"", "\\", CtrlA, "U+4F60",
     IdeographicSpace}

VideoName ==
    <<"v", "i", "d", "e", "o", ".", "m", "k", "v">>

SubtitleName ==
    <<"U+4F60", "U+597D", " ", "U+5B57", "U+5E55", ".", "a", "s", "s">>

FileNames ==
    UNION {[1..n -> NameChars] : n \in 1..MaxNameLen}
        \cup {VideoName, SubtitleName}

InitDisposition ==
    /\ raw \in {[name |-> n] : n \in FileNames}
    /\ fs = EmptyFs
    /\ StoresEmpty
    /\ inflight = NoLogins
    /\ ret = NoCall

ContentDispositionCall ==
    /\ ret = NoCall
    /\ ret' = [op |-> "content_disposition_inline",
               result |-> content_disposition_inline(RootDir \o <<raw.name>>)]
    /\ UNCHANGED <<raw, inflight, fs, storeVars>>

NextDisposition == ContentDispositionCall

SpecDisposition == InitDisposition /\ [][NextDisposition]_vars

\* The fallback as the claim words it: character by character, then without
\* the spaces at either end.
FallbackChar(c) ==
    IF (\E i \in 1..Len(AsciiPrintable) : AsciiPrintable[i] = c)
       /\ c \notin {"\"", "\\"}
    THEN c
    ELSE IF IsWhitespace(c) THEN " " ELSE "_"

ExpectedFallback(name) ==
    LET mapped == [i \in 1..Len(name) |-> FallbackChar(name[i])]
        kept == {i \in 1..Len(name) : mapped[i] # " "}
    IN  IF kept = {} THEN <<"f", "i", "l", "e">>
        ELSE SubSeq(mapped, CHOOSE i \in kept : \A j \in kept : i <= j,
                    CHOOSE i \in kept : \A j \in kept : j <= i)

\* The attr-char allowlist of RFC 5987, and %XX in upper case.
AttrChars ==
    {AsciiPrintable[i] : i \in {k \in 1..Len(AsciiPrintable) :
                                   \/ k + 31 \in 48..57
                                   \/ k + 31 \in 65..90
                                   \/ k + 31 \in 97..122}}
        \cup {"!", "#", "$", "&", "+", "-", ".", "^", "_", Grave, "|", "~"}

HexDigits ==
    <<"0", "1", "2", "3", "4", "5", "6", "7", "8", "9",
      "A", "B", "C", "D", "E", "F">>

RECURSIVE PercentForm(_)
PercentForm(bytes) ==
    IF bytes = <<>> THEN <<>>
    ELSE <<"%", HexDigits[(Head(bytes) \div 16) + 1],
           HexDigits[(Head(bytes) % 16) + 1]>> \o PercentForm(Tail(bytes))

RECURSIVE ExpectedEncoded(_)
ExpectedEncoded(name) ==
    IF name = <<>> THEN <<>>
    ELSE (IF Head(name) \in AttrChars THEN <<Head(name)>>
          ELSE PercentForm(as_bytes(<<Head(name)>>)))
         \o ExpectedEncoded(Tail(name))

\* C25: for every file name the Content-Disposition value carries the ASCII
\* fallback (each printable ASCII character other than the double quote and
\* the backslash kept, each other whitespace character a space, each other
\* character "_", trimmed, "file" when nothing remains) and a filename* form
\* in which every UTF-8 octet outside the attr-char allowlist is %XX in upper
\* case hex.
C25_ContentDisposition ==
    ret.op = "content_disposition_inline" =>
        ret.result = InlineFilename \o ExpectedFallback(raw.name)
                         \o ExtendedFilename \o ExpectedEncoded(raw.name)

SubtitleFallback ==
    <<"_", "_", " ", "_", "_", ".", "a", "s", "s">>

SubtitleEncoded ==
    <<"%", "E", "4", "%", "B", "D", "%", "A", "0", "%", "E", "5", "%",
      "A", "5", "%", "B", "D", "%", "2", "0", "%", "E", "5", "%", "A",
      "D", "%", "9", "7", "%", "E", "5", "%", "B", "9", "%", "9", "5",
      ".", "a", "s", "s">>

\* C25 witness: the name of the test in handlers.rs gives the fallback
\* "__ __.ass" and the octets E4 BD A0 E5 A5 BD 20 E5 AD 97 E5 B9 95 before
\* ".ass".
C25_Witness ==
    /\ ret.op = "content_disposition_inline"
    /\ raw.name = SubtitleName
    /\ ret.result = InlineFilename \o SubtitleFallback
                        \o ExtendedFilename \o SubtitleEncoded

----------------------------------------------------------------------------
(* list_handler over directories that hold markers, a symbolic link, a      *)
(* regular file and a subdirectory with or without .private.  The listing   *)
(* of a directory that holds .password needs a session, so logins are part  *)
(* of the specification.                                                    *)

ListedEntries(p) ==
    IF p = <<NameA>> THEN {Dir}
    ELSE IF p = DirChain THEN {File(PlainFileData), Dir, Symlink(RootDir)}
    ELSE IF p \in SiblingPaths THEN {File(PlainFileData), Symlink(Dangling)}
    ELSE IF p \in {<<NameA, PASSWORD_MARKER_FILE>>,
                   <<NameA, PRIVATE_MARKER_FILE>>,
                   Append(DirChain, PRIVATE_MARKER_FILE)} THEN {FileFor(p)}
    ELSE {}

ListedDirs == {None, Some(NameA)}

NextList ==
    \/ \E p \in EntryPaths : \E e \in ListedEntries(p) : FsPut(p, e)
    \/ \E p \in EntryPaths : FsRemove(p)
    \/ \E jar \in Cookies :
          LoginRequest(jar, [path |-> NameA, password |-> GoodPassword])
    \/ \E jar \in Cookies, path \in ListedDirs :
          \E order \in ListingOrders(path) : ListRequest(jar, path, order)
    \/ Return

SpecList == Init /\ [][NextList]_vars

\* The names in the directory a listing request names, and what is there
\* under each.
ChildNames(dir) ==
    {p[Len(p)] : p \in {q \in EntryPaths :
                           /\ RootDir \o SubSeq(q, 1, Len(q) - 1) = dir
                           /\ fs[q].kind # "none"}}
ChildAt(dir, name) == EntryAt(Append(dir, name))
ListedAt(name) ==
    {i \in 1..Len(ret.response.val.entries) :
        ret.response.val.entries[i].name = name}

\* C26: a successful listing of a directory has no entry named .password or
\* .private, no entry that is a symbolic link and no subdirectory that holds
\* a .private marker; every other regular file and subdirectory of the
\* directory is in it exactly once.
C26_ListingFilter ==
    (ListsDirectory /\ ret.response.ok) =>
        \A name \in ChildNames(RequestTarget) :
            Cardinality(ListedAt(name)) =
                IF \/ name \in {PASSWORD_MARKER_FILE, PRIVATE_MARKER_FILE}
                   \/ ChildAt(RequestTarget, name).kind \notin {"file", "dir"}
                   \/ /\ ChildAt(RequestTarget, name).kind = "dir"
                      /\ PRIVATE_MARKER_FILE
                             \in ChildNames(Append(RequestTarget, name))
                THEN 0
                ELSE 1

\* C26 witness: a holds .password, .private, the symbolic link b and the
\* regular file c, and its listing has the one entry c.
C26_Witness ==
    /\ ListsDirectory /\ ret.response.ok
    /\ RequestTarget = RootDir \o <<NameA>>
    /\ ChildNames(RequestTarget) =
           {PASSWORD_MARKER_FILE, PRIVATE_MARKER_FILE, NameB, NameC}
    /\ ChildAt(RequestTarget, NameB).kind = "symlink"
    /\ ChildAt(RequestTarget, NameC).kind = "file"
    /\ Len(ret.response.val.entries) = 1
    /\ ret.response.val.entries[1].name = NameC

\* A subdirectory that holds .private is left out next to a file that stays.
C26_WitnessHidden ==
    /\ ListsDirectory /\ ret.response.ok
    /\ RequestTarget = RootDir \o <<NameA>>
    /\ ChildAt(RequestTarget, NameB).kind = "dir"
    /\ PRIVATE_MARKER_FILE \in ChildNames(Append(RequestTarget, NameB))
    /\ ChildAt(RequestTarget, NameC).kind = "file"
    /\ Len(ret.response.val.entries) = 1
    /\ ret.response.val.entries[1].name = NameC

----------------------------------------------------------------------------
(* Logins for two scopes, a and a/b, with the correct password, several at  *)
(* once.  The step of create_or_update keeps, with the answer, the map it    *)
(* found (history only).                                                     *)

ScopesTree ==
    [p \in EntryPaths |->
        IF p \in ChainPaths THEN Dir
        ELSE IF p \in {Append(d, PASSWORD_MARKER_FILE) : d \in ChainPaths}
             THEN FileFor(p)
        ELSE NoEntry]

ScopePaths == {Join(d, "/") : d \in ChainPaths}

InitScopes ==
    /\ raw = None
    /\ fs = ScopesTree
    /\ sessions = EmptyMap
    /\ minted = 0
    /\ attempts = EmptyMap
    /\ now = 0
    /\ inflight = [slots |-> [i \in Slots |-> IdleSlot], started |-> 0]
    /\ ret = NoCall

\* handlers.rs 384-416
GrantCreateOrUpdate(i) ==
    LET req == inflight.slots[i]
        created == create_or_update(sessions, req.jar, req.anchor.scope_rel,
                                    LongSessionTtl, req.now, minted + 1)
    IN /\ req.pc = "create_or_update"
       /\ created.minted => minted < MaxIds
       /\ sessions' = created.sessions
       /\ minted' = IF created.minted THEN minted + 1 ELSE minted
       /\ inflight' =
            SetSlot(i, [pc |-> "done", jar |-> req.jar, now |-> req.now,
                        scope |-> req.anchor.scope_rel, before |-> sessions,
                        response |->
                            Ok([ok |-> TRUE, scope |-> req.anchor.scope_rel,
                                expires_at |->
                                    unix_to_rfc3339(created.session.expires_at)]),
                        set_cookie |-> Some(created.session_id)])
       /\ UNCHANGED <<raw, fs, attempts, now, ret>>

NextScopes ==
    \/ Tick
    \/ \E i \in Slots, jar \in Cookies, path \in ScopePaths :
          LoginBegin(i, jar, [path |-> path, password |-> GoodPassword])
    \/ \E i \in Slots : LoginBlockedUntil(i)
    \/ \E i \in Slots : LoginRecordSuccess(i)
    \/ \E i \in Slots : GrantCreateOrUpdate(i)
    \/ \E i \in Slots : LoginEnd(i)

SpecScopes == InitScopes /\ [][NextScopes]_vars

\* The request in the slot has been through create_or_update with the id of
\* a record that was in the map and had not expired at the request's time.
ReusedLiveId(i, sid) ==
    /\ inflight.slots[i].pc = "done"
    /\ inflight.slots[i].jar = Some(sid)
    /\ sid \in DOMAIN inflight.slots[i].before
    /\ inflight.slots[i].before[sid].expires_at > inflight.slots[i].now

\* C27: when two login requests that reuse the same unexpired session id and
\* grant different scopes s1 and s2 run side by side, then however their
\* steps interleave the record of the id ends with s1, s2 and every scope it
\* held before, and both requests are answered with that id.
C27_NoLostScope ==
    \A i, j \in Slots : \A sid \in CookieValues :
        (/\ i # j
         /\ ReusedLiveId(i, sid)
         /\ ReusedLiveId(j, sid)
         /\ inflight.slots[i].scope # inflight.slots[j].scope)
            => /\ inflight.slots[i].set_cookie = Some(sid)
               /\ inflight.slots[j].set_cookie = Some(sid)
               /\ sid \in DOMAIN sessions
               /\ inflight.slots[i].scope \in sessions[sid].scopes
               /\ inflight.slots[j].scope \in sessions[sid].scopes
               /\ inflight.slots[i].before[sid].scopes \subseteq sessions[sid].scopes
               /\ inflight.slots[j].before[sid].scopes \subseteq sessions[sid].scopes

\* C27 witness: the request in slot 1 read the clock first and the request in
\* slot 2 went through create_or_update first, adding its scope to the record
\* of the id both carry; the record ends with both scopes.
C27_Witness ==
    /\ ReusedLiveId(1, 1)
    /\ ReusedLiveId(2, 1)
    /\ inflight.slots[1].now < inflight.slots[2].now
    /\ inflight.slots[1].scope # inflight.slots[2].scope
    /\ inflight.slots[2].scope \notin inflight.slots[2].before[1].scopes
    /\ inflight.slots[2].scope \in inflight.slots[1].before[1].scopes
    /\ sessions[1].scopes = {<<"a">>, <<"a", "/", "b">>}

----------------------------------------------------------------------------
(* The limiter under every configured max_failures from 1 up
   (LoginRateLimiter::new, config.rs: login_max_failures). *)

MaxConfiguredFailures == 3

InitConfigured ==
    /\ raw \in {[max_failures |-> m, block_seconds |-> LoginBlockSeconds] :
                   m \in 1..MaxConfiguredFailures}
    /\ fs = EmptyFs
    /\ StoresEmpty
    /\ inflight = NoLogins
    /\ ret = NoCall

ConfiguredFailureCall(key, t) ==
    LET r == record_failure(attempts, key, t, raw.max_failures,
                            raw.block_seconds) IN
    /\ ret = NoCall
    /\ attempts' = r.attempts
    /\ ret' = [op |-> "record_failure", key |-> key, now |-> t,
               before |-> attempts, result |-> r.result]
    /\ UNCHANGED <<raw, inflight, fs, sessions, minted, now>>

NextConfigured ==
    \/ Tick
    \/ \E key \in LimiterKeys, t \in 0..now : BlockedUntilCall(key, t)
    \/ \E key \in LimiterKeys, t \in 0..now : ConfiguredFailureCall(key, t)
    \/ \E key \in LimiterKeys : RecordSuccessCall(key)
    \/ ReturnStore

SpecConfigured == InitConfigured /\ [][NextConfigured]_vars

\* C28: in every state the limiter reaches with max_failures >= 1, every
\* entry has a count below max_failures, and an entry with a block deadline
\* has the count zero.
C28_CountBelowMax ==
    \A key \in DOMAIN attempts :
        /\ attempts[key].failures < raw.max_failures
        /\ attempts[key].blocked_until # None => attempts[key].failures = 0

\* C28 witness: under max_failures = 3 one key has two failures counted and
\* no block, the other a block and no failure counted.
C28_Witness ==
    /\ raw.max_failures = 3
    /\ \E counted, blocked \in DOMAIN attempts :
          /\ attempts[counted] = LoginAttempt(2, None)
          /\ attempts[blocked].blocked_until # None
          /\ attempts[blocked].failures = 0

----------------------------------------------------------------------------
(* Logins with a wrong password for one key, several at once, with the      *)
(* comparison of the password (handlers.rs 372) a step of its own between    *)
(* the two uses of the limiter.  raw keeps the history: how many passwords   *)
(* have been compared, and whether the key has been blocked.                 *)

InitGuess ==
    /\ raw = [compared |-> 0, blocked |-> FALSE]
    /\ fs = LoginTree
    /\ sessions = EmptyMap
    /\ minted = 0
    /\ attempts = EmptyMap
    /\ now = 0
    /\ inflight = [slots |-> [i \in Slots |-> IdleSlot], started |-> 0]
    /\ ret = NoCall

\* handlers.rs 372
GuessCompare(i) ==
    LET req == inflight.slots[i] IN
    /\ req.pc = "password"
    /\ inflight' = SetSlot(i, [req EXCEPT !.pc =
                                  IF req.password # req.anchor.password
                                  THEN "record_failure"
                                  ELSE "record_success"])
    /\ raw' = [raw EXCEPT !.compared = @ + 1]
    /\ UNCHANGED <<fs, sessions, minted, attempts, now, ret>>

\* handlers.rs 373-380
GuessRecordFailure(i) ==
    LET req == inflight.slots[i]
        failure == record_failure(attempts, req.limiter_key, req.now,
                                  LoginMaxFailures, LoginBlockSeconds)
    IN /\ req.pc = "record_failure"
       /\ attempts' = failure.attempts
       /\ inflight' =
            SetSlot(i, Answered(req,
                          IF IsSome(failure.result)
                          THEN TooManyFailures(Unwrap(failure.result), req.now)
                          ELSE unauthorized("Invalid password."),
                          None))
       /\ raw' = [raw EXCEPT !.blocked = @ \/ IsSome(failure.result)]
       /\ UNCHANGED <<fs, sessions, minted, now, ret>>

NextGuess ==
    \/ Tick
    \/ \E i \in Slots :
          LoginBegin(i, None, [path |-> NameA, password |-> BadPassword])
    \/ \E i \in Slots : LoginBlockedUntil(i)
    \/ \E i \in Slots : GuessCompare(i)
    \/ \E i \in Slots : GuessRecordFailure(i)
    \/ \E i \in Slots : LoginEnd(i)

SpecGuess == InitGuess /\ [][NextGuess]_vars

\* C29: starting from a key with no failure recorded, at most max_failures
\* submitted passwords are compared with the anchor's password before the key
\* becomes blocked, however the login requests for the key interleave.
C29_GuessesBounded ==
    ~raw.blocked => raw.compared <= LoginMaxFailures

----------------------------------------------------------------------------
(* The life of a session id: logins with the correct password, several at   *)
(* once, beside get_valid at the present time and logout.                    *)

NextLifetime ==
    \/ Tick
    \/ \E i \in Slots, jar \in Cookies :
          LoginBegin(i, jar, [path |-> NameA, password |-> GoodPassword])
    \/ \E i \in Slots : LoginBlockedUntil(i)
    \/ \E i \in Slots : LoginRecordSuccess(i)
    \/ \E i \in Slots : LoginCreateOrUpdate(i)
    \/ \E i \in Slots : LoginEnd(i)
    \/ \E sid \in CookieValues : GetValidCall(sid, now)
    \/ \E jar \in Cookies : LogoutRequest(jar)
    \/ ReturnStore

SpecLifetime == InitLogin /\ [][NextLifetime]_vars

\* The id was given out and get_valid has no record to return for it now:
\* its record was removed, or the clock has reached its expires_at.
DeadId(sid) ==
    /\ sid \in 1..minted
    /\ sid \in DOMAIN sessions => sessions[sid].expires_at <= now

\* C31: once a session id has been removed by logout or has expired, nothing
\* that happens later makes get_valid return a record for it again, and a
\* login that presents the dead id is answered with another id (new ids
\* never repeat an earlier one).
C31_DeadIdStaysDead ==
    [][/\ \A sid \in 1..minted :
             DeadId(sid) =>
                 /\ sid \notin DOMAIN sessions'
                       \/ sessions'[sid].expires_at <= now'
                 /\ (ret'.op = "get_valid" /\ ret'.sid = sid /\ ret' # ret)
                       => ret'.result = None
       /\ \A i \in Slots :
             (/\ inflight.slots[i].pc = "create_or_update"
              /\ inflight'.slots[i].pc = "done"
              /\ inflight.slots[i].jar # None
              /\ DeadId(Unwrap(inflight.slots[i].jar)))
                => inflight'.slots[i].set_cookie # inflight.slots[i].jar]_vars

----------------------------------------------------------------------------
(* The ancestor walk of find_private_anchor, one turn of its loop per step.
   Every turn awaits the file system, so other processes may change the
   tree between two turns.  raw holds the walk in progress: the directory
   the next turn checks, the number of marker checks made, and the
   directories they were made in. *)

\* auth.rs 20-28: the prefix check and the directory the walk starts in.
WalkBegin(target_path) ==
    LET root == RootDir
        target_is_dir == metadata(target_path).entry.kind = "dir"
        call == [op |-> "find_private_anchor", target_path |-> target_path,
                 target_is_dir |-> target_is_dir, checks |-> 0,
                 inspected |-> <<>>]
    IN
    /\ ret = NoCall
    /\ raw = None
    /\ IF ~StartsWith(target_path, root)
       THEN /\ raw' = None
            /\ ret' = call @@ [result |->
                         forbidden("Path is outside configured root directory.")]
       ELSE /\ raw' = Some(call @@ [current |->
                         IF target_is_dir THEN target_path
                         ELSE IF IsSome(Parent(target_path))
                              THEN Unwrap(Parent(target_path))
                              ELSE root])
            /\ ret' = NoCall
    /\ UNCHANGED <<inflight, fs, storeVars>>

\* auth.rs 30-48: one turn of the loop.
WalkStep ==
    /\ raw # None
    /\ LET root == RootDir
           walk == Unwrap(raw)
           current == walk.current
           checked == [op |-> walk.op, target_path |-> walk.target_path,
                       target_is_dir |-> walk.target_is_dir,
                       checks |-> walk.checks + 1,
                       inspected |-> Append(walk.inspected, current)]
           password == read_marker_password(current, PASSWORD_MARKER_FILE)
           scope_rel == relative_string_from_root(root, current)
           parent == parent_within_root(current, root)
           finish(result) ==
               /\ raw' = None
               /\ ret' = checked @@ [result |-> result]
       IN
       IF ~password.ok THEN finish(password)
       ELSE IF IsSome(password.val)
       THEN IF ~scope_rel.ok THEN finish(scope_rel)
            ELSE finish(Ok(Some(PrivateAnchor(scope_rel.val,
                                              Unwrap(password.val)))))
       ELSE IF current = root THEN finish(Ok(None))
       ELSE IF ~parent.ok THEN finish(parent)
       ELSE /\ raw' = Some(checked @@ [current |-> parent.val])
            /\ ret' = NoCall
    /\ UNCHANGED <<inflight, fs, storeVars>>

NextWalk ==
    \/ \E p \in ChainPaths \cup MarkerPaths :
          \E e \in AllEntries(p) : FsPut(p, e)
    \/ \E p \in ChainPaths \cup MarkerPaths : FsRemove(p)
    \/ ret = NoCall /\ raw = None
          /\ \E target \in ResolvedPaths : WalkBegin(target)
    \/ WalkStep
    \/ Return

SpecWalk == InitFs /\ [][NextWalk]_vars

\* The executor keeps polling the future of a request that is being
\* handled, so a walk that can take a turn eventually takes it.
SpecWalkFair == SpecWalk /\ WF_vars(WalkStep)

\* The number of path components of a target below the root.
Depth(target_path) == Len(target_path) - Len(RootDir)

WalkInProgress == raw # None

WalkFinished == ret.op = "find_private_anchor"

\* The walk in progress has made no more checks than the levels it has
\* climbed, and is still inside the root.
WalkWithinBound ==
    WalkInProgress =>
        LET walk == Unwrap(raw) IN
        /\ StartsWith(walk.current, RootDir)
        /\ walk.checks + Depth(walk.current) <= Depth(walk.target_path)
        /\ \A k \in 1..Len(walk.inspected) :
              StartsWith(walk.inspected[k], RootDir)

\* The finished walk made at most depth + 1 checks, all of them inside the
\* root, and returned none only after checking the root itself.
WalkResult ==
    WalkFinished =>
        /\ ret.checks <= Depth(ret.target_path) + 1
        /\ \A k \in 1..Len(ret.inspected) :
              /\ StartsWith(ret.inspected[k], RootDir)
              /\ StartsWith(ret.target_path, ret.inspected[k])
        /\ \/ ~ret.result.ok
           \/ /\ ret.result.val = None
              /\ ret.checks >= 1
              /\ ret.inspected[ret.checks] = RootDir
           \/ /\ IsSome(ret.result.val)
              /\ ret.checks >= 1
              /\ relative_string_from_root(RootDir, ret.inspected[ret.checks])
                    = Ok(Unwrap(ret.result.val).scope_rel)

\* C32: the ancestor walk of find_private_anchor always terminates: a walk
\* that has begun finishes, after at most depth + 1 marker checks for a
\* target depth components below the root; it returns an anchor, none (only
\* after checking the root and finding no marker) or an error, and every
\* directory it checks for a marker lies inside the root.
C32_WalkTerminates ==
    /\ []WalkWithinBound
    /\ []WalkResult
    /\ WalkInProgress ~> WalkFinished

\* A walk from a directory two levels below the root found no marker on the
\* way and returned none after depth + 1 = 3 checks, the last at the root.
C32_Witness ==
    /\ WalkFinished
    /\ Depth(ret.target_path) = 2
    /\ ret.target_is_dir
    /\ ret.checks = 3
    /\ ret.inspected[3] = RootDir
    /\ ret.result = Ok(None)

====
